---- MODULE Spec2Model ----
(***************************************************************************)
(* A model of the Preql interpreter core: function parameter matching      *)
(* (pql_objects.py), the evaluation state with its access levels and scope *)
(* stack (interp_common.py), and statement execution (evaluate.py,         *)
(* compiler.py).                                                           *)
(*                                                                         *)
(* The module holds several specifications over one set of variables.      *)
(*   SpecMatch  - Function.match_params applied to bounded (params, args)  *)
(*   SpecAccess - State.clone / reduce_access / compile_to_inst(Parameter) *)
(*   Spec       - the statement executor with its scope stack              *)
(* Each specification leaves the other components' variables idle.         *)
(***************************************************************************)
EXTENDS Integers, Sequences, FiniteSets, TLC

\* ---------------------------------------------------------------- bounds
MaxParams == 2
MaxArgs == 3
MaxStates == 3
\* nested constructs being executed at once
MaxDepth == 2
\* scopes pushed by one top-level statement
MaxPushes == 2
\* elements of a for loop's iterable
MaxIter == 1
\* rows of an updated or deleted table
MaxRows == 1
\* queries that for loops submit in one run
MaxQueries == 1
\* queries recorded in one run once a table definition, new, insert, update
\* or delete adds to them
MaxWriteQueries == 2

\* ------------------------------------------------------------- variables
VARIABLES
    \* Function.match_params
    params,           \* self.params: the declared parameter names
    param_collector,  \* self.param_collector ("" when None)
    args,             \* the call's arguments: records [name, value]
    matched,          \* the outcome of match_params
    mpc,              \* "call" before the call, "done" after
    \* State objects (SpecAccess)
    states,           \* the State objects made so far: [access_level, ns, parent]
    aerr,             \* the exception of the last reduce_access call, "" if none
    presult,          \* the result of the last compile_to_inst(Parameter)
    \* the statement executor (Spec, SpecDB)
    ns,               \* state.ns.ns: the scope stack, innermost scope last
    access_level,     \* state.access_level
    kstack,           \* the constructs being executed, innermost last
    signal,           \* the exception being propagated, if any
    queries,          \* the queries submitted to state.db, in order
    depth0,           \* len(ns) when the current top-level statement began
    pushed,           \* scopes pushed since the top-level statement began
    popped,           \* scopes popped since the top-level statement began
    retval,           \* the value of the call of a user function that has just
                      \* ended, "" after any other step
    \* Interpreter._execute_code running one script (SpecScript)
    script,           \* the statements of the script, in source order
    pc,               \* the index of the statement to execute next
    printed,          \* the values printed so far, in order
    db,               \* the database: [exists, rows] of the table P
    \* compile_to_inst(Projection) (SpecProj)
    proj,             \* the projection and its source table
    proj_result,      \* the outcome of compiling it
    \* simplify(Or) (SpecOr)
    or_args,          \* the instances the arguments evaluate to
    or_result,        \* the outcome: the instance returned, the arguments inspected
    \* Interpreter and its per-thread copies of the state (SpecThread)
    heap,             \* the scope dicts allocated so far; a dict's identity is
                      \* its index
    interp_state,     \* Interpreter.state.ns.ns: the dicts of the original state
    local_copies,     \* per thread, the dicts of _local_copies.state, <<>>
                      \* before the thread's first access
    seen,             \* what the code run last by execute_code read, if anything
    last_set,         \* the last Interpreter.set_var call: [thread, name, value]
    \* State.unique_name over cloned states (SpecTick, SpecRace)
    ticks,            \* the one-element lists made by State.__init__; a list's
                      \* identity is its index, its value is tick[0]
    tick_states,      \* the states made so far: [tick, access_level], tick
                      \* being the identity of the list the state holds
    minted,           \* the unique_name calls that returned, in order:
                      \* [state, prefix, name, tick]
    upc,              \* per thread, where it is in unique_name (SpecRace)
    ureg,             \* per thread, the tick[0] it read for the increment
    \* simplify(Update) on one table (SpecUpdate)
    upd,              \* the statement: the table's columns and rows, the fields
    upd_result,       \* the outcome: the queries submitted and the error raised
    \* the command line's main (SpecMain)
    cli,              \* the parsed arguments and what running the code does
    cli_result,       \* how main ended: what it returned or raised
    \* compile_to_inst of Arith and Compare nodes (SpecExpr)
    expr,             \* the node: its operator and its two evaluated operands
    expr_result       \* the instance it compiles to, or the error

vars_match == <<params, param_collector, args, matched, mpc>>
vars_access == <<states, aerr, presult>>
vars_exec == <<ns, access_level, kstack, signal, queries, depth0, pushed, popped,
              retval>>

vars_script == <<script, pc, printed, db>>
vars_proj == <<proj, proj_result>>
vars_or == <<or_args, or_result>>

vars_thread == <<heap, interp_state, local_copies, seen, last_set>>
vars_tick == <<ticks, tick_states, minted, upc, ureg>>
vars_upd == <<upd, upd_result>>
vars_cli == <<cli, cli_result>>
vars_expr == <<expr, expr_result>>
vars_more == <<vars_thread, vars_tick, vars_upd, vars_cli, vars_expr>>

vars == <<vars_match, vars_access, vars_exec, vars_script, vars_proj, vars_or,
          vars_more>>

\* ======================================================================
\* Function.match_params (pql_objects.py)
\* ======================================================================

ParamNames == {"a", "b"}
ArgNames == {"", "a", "b", "z"}       \* "" is a positional argument (name None)
ArgValues == {1, 2}
Collectors == {"", "kw"}              \* "" is param_collector = None

SeqsUpTo(S, n) == UNION {[1..k -> S] : k \in 0..n}

\* Parameter lists declare each name once.
ParamLists == {p \in SeqsUpTo(ParamNames, MaxParams) :
                  \A i, j \in 1..Len(p) : i # j => p[i] # p[j]}
ArgLists == SeqsUpTo([name : ArgNames, value : ArgValues], MaxArgs)

NoResult == [kind |-> "none", matched |-> <<>>, msg |-> "", param |-> ""]

\* utils.split_at_index(arr, idx): (arr[:idx], arr[idx:]) with a 0-based idx;
\* here i is the 1-based position of the first element of the second part.
split_at_index(arr, i) ==
    <<SubSeq(arr, 1, IF i - 1 < Len(arr) THEN i - 1 ELSE Len(arr)),
      SubSeq(arr, i, Len(arr))>>

\* for i, arg in enumerate(args): if arg.name: ... break
\* The 1-based index of the first keyword argument, 0 when there is none.
first_keyword(as) ==
    IF \E i \in 1..Len(as) : as[i].name # ""
    THEN CHOOSE i \in 1..Len(as) :
            as[i].name # "" /\ \A j \in 1..(i - 1) : as[j].name = ""
    ELSE 0

\* pql_TypeError is a dataclass with the fields (meta, message,
\* source_code = None).  match_params calls it with one positional argument,
\* the text, which lands in meta: the generated __init__ fails for the missing
\* message and Python raises the builtin TypeError, which is no PreqlError.
pql_TypeError_one_arg(text) ==
    [kind |-> "TypeError", matched |-> <<>>,
     msg |-> "__init__() missing 1 required positional argument: 'message'",
     param |-> ""]

\* if len(pos_params) != len(pos_args): raise pql_TypeError(...)
count_mismatch(pos_params, pos_args) == Len(pos_params) # Len(pos_args)

\* [(p, arg.value) for (p, arg) in safezip(pos_params, pos_args)]
zip_matched(pos_params, pos_args) ==
    LET n == IF Len(pos_params) < Len(pos_args) THEN Len(pos_params)
             ELSE Len(pos_args)
    IN [k \in 1..n |-> <<pos_params[k], pos_args[k].value>>]

\* args_d = {na.name: na.value for na in named_args}: a later argument of the
\* same name overwrites an earlier one.
make_args_d(named_args) ==
    [n \in {named_args[k].name : k \in 1..Len(named_args)} |->
        LET last == CHOOSE k \in 1..Len(named_args) :
                        /\ named_args[k].name = n
                        /\ \A j \in (k + 1)..Len(named_args) : named_args[j].name # n
        IN named_args[last].value]

\* The for loop over named_params.  args_d.pop(np.name) raises KeyError when
\* the name is absent; the handler calls pql_TypeError with one string.  When
\* the name is present, matched.append(np, value) is called with two
\* arguments: list.append takes exactly one, so Python raises the builtin
\* TypeError there.  Either way the first iteration ends the loop.
bind_named(named_params, args_d, m) ==
    IF Len(named_params) = 0
    THEN [kind |-> "ok", matched |-> m, msg |-> "", param |-> ""]
    ELSE IF named_params[1] \notin DOMAIN args_d
         THEN pql_TypeError_one_arg("Parameter wasn't assigned")
         ELSE [kind |-> "TypeError", matched |-> <<>>,
               msg |-> "append() takes exactly one argument", param |-> ""]

\* if args_d: matched.append(self.param_collector, args_d) (again a
\* two-argument append) or raise pql_TypeError(<one string>).
bind_collector(collector, args_d, m) ==
    IF DOMAIN args_d = {}
    THEN [kind |-> "ok", matched |-> m, msg |-> "", param |-> ""]
    ELSE IF collector # ""
         THEN [kind |-> "TypeError", matched |-> <<>>,
               msg |-> "append() takes exactly one argument", param |-> ""]
         ELSE pql_TypeError_one_arg("Function doesn't accept arguments named")

match_params(ps, collector, as) ==
    LET i == first_keyword(as)
        pos_args     == IF i > 0 THEN split_at_index(as, i)[1] ELSE as
        named_args   == IF i > 0 THEN split_at_index(as, i)[2] ELSE <<>>
        pos_params   == IF i > 0 THEN split_at_index(ps, i)[1] ELSE ps
        named_params == IF i > 0 THEN split_at_index(ps, i)[2] ELSE <<>>
    IN IF count_mismatch(pos_params, pos_args)
       THEN pql_TypeError_one_arg("takes parameters but recieved arguments")
       ELSE LET m0 == zip_matched(pos_params, pos_args)
                args_d == make_args_d(named_args)
                r1 == bind_named(named_params, args_d, m0)
            IN IF r1.kind # "ok" THEN r1
               ELSE bind_collector(collector, args_d, r1.matched)

\* ------------------------------------------------- claims on match_params

\* What the call looks like, computed from the arguments alone.
KeywordIdx == {k \in 1..Len(args) : args[k].name # ""}
HasKeyword == KeywordIdx # {}
NumPositionalArgs ==
    IF HasKeyword
    THEN (CHOOSE k \in KeywordIdx : \A j \in KeywordIdx : k <= j) - 1
    ELSE Len(args)
NumPositionalParams ==
    IF ~HasKeyword \/ Len(params) < NumPositionalArgs
    THEN Len(params) ELSE NumPositionalArgs
NamedParamIdx == (NumPositionalParams + 1)..Len(params)
\* The names given after the positional arguments (a positional argument
\* that follows a keyword has the empty name).
GivenNames == {args[k].name : k \in (NumPositionalArgs + 1)..Len(args)}
ValueGiven(n) ==
    LET ks == {k \in (NumPositionalArgs + 1)..Len(args) : args[k].name = n}
    IN args[CHOOSE k \in ks : \A j \in ks : j <= k].value
LeftOver == GivenNames \ {params[k] : k \in NamedParamIdx}
PositionalOk == NumPositionalArgs = NumPositionalParams
AllNamedGiven == \A k \in NamedParamIdx : params[k] \in GivenNames

\* C2: match_params either succeeds with one (param, value) pair per declared
\* parameter, in declaration order, or raises a pql_TypeError; when the error
\* is about a parameter that received no argument, its message names the
\* first such parameter in declaration order.
C2_MatchTotal ==
    mpc = "done" =>
        \/ /\ matched.kind = "ok"
           /\ Len(matched.matched) = Len(params)
           /\ \A k \in 1..Len(params) : matched.matched[k][1] = params[k]
        \/ /\ matched.kind = "pql_TypeError"
           /\ matched.msg = "Parameter wasn't assigned" =>
                 \E k \in NamedParamIdx :
                    /\ matched.param = params[k]
                    /\ params[k] \notin GivenNames
                    /\ \A j \in NamedParamIdx : j < k => params[j] \in GivenNames

\* C3: the arguments are split at the first keyword argument, and a call
\* whose number of positional arguments differs from the number of
\* positional parameters raises the "takes N parameters" pql_TypeError and
\* binds nothing; a call that succeeds has equal counts.
C3_PositionalCount ==
    mpc = "done" =>
        /\ ~PositionalOk =>
              /\ matched.kind = "pql_TypeError"
              /\ matched.msg = "takes parameters but recieved arguments"
              /\ matched.matched = <<>>
        /\ matched.kind = "ok" => PositionalOk
        /\ (~HasKeyword /\ Len(args) = Len(params)) =>
              /\ matched.kind = "ok"
              /\ matched.matched =
                    [k \in 1..Len(params) |-> <<params[k], args[k].value>>]

\* C4: every parameter after the positional ones is bound to the keyword
\* argument of its name, and a missing keyword argument for such a parameter
\* raises a pql_TypeError.
C4_NamedBound ==
    (mpc = "done" /\ HasKeyword /\ PositionalOk) =>
        /\ (AllNamedGiven /\ NamedParamIdx # {} /\ LeftOver = {}) =>
              /\ matched.kind = "ok"
              /\ \A k \in NamedParamIdx :
                    matched.matched[k] = <<params[k], ValueGiven(params[k])>>
        /\ ~AllNamedGiven => matched.kind = "pql_TypeError"

\* C5: keyword arguments that match no parameter raise a pql_TypeError when
\* the function has no param_collector; with a param_collector the call
\* succeeds and the collector is bound to the map of the left-over keywords.
C5_LeftOverKeywords ==
    (mpc = "done" /\ HasKeyword /\ PositionalOk /\ AllNamedGiven
        /\ LeftOver # {}) =>
        IF param_collector = ""
        THEN matched.kind = "pql_TypeError"
        ELSE /\ matched.kind = "ok"
             /\ matched.matched[Len(matched.matched)] =
                    <<param_collector, [n \in LeftOver |-> ValueGiven(n)]>>

IdleAccess ==
    /\ states = <<>>
    /\ aerr = ""
    /\ presult = [kind |-> "idle"]

NoSignal == [kind |-> "none", type |-> "", value |-> ""]

NoDb == [exists |-> FALSE, rows |-> 0]
IdleScript ==
    /\ script = <<>>
    /\ pc = 0
    /\ printed = <<>>
    /\ db = NoDb

NoProj == [kind |-> "none"]
IdleProj ==
    /\ proj = NoProj
    /\ proj_result = NoProj

IdleOr ==
    /\ or_args = <<>>
    /\ or_result = [kind |-> "none"]

NoSeen == [thread |-> 0, name |-> "", kind |-> "none", value |-> ""]
NoSet == [thread |-> 0, name |-> "", value |-> ""]
IdleThread ==
    /\ heap = <<>>
    /\ interp_state = <<>>
    /\ local_copies = <<>>
    /\ seen = NoSeen
    /\ last_set = NoSet

IdleTick ==
    /\ ticks = <<>>
    /\ tick_states = <<>>
    /\ minted = <<>>
    /\ upc = <<>>
    /\ ureg = <<>>

NoUpdate == [kind |-> "none"]
IdleUpdate ==
    /\ upd = NoUpdate
    /\ upd_result = NoUpdate

NoCli == [kind |-> "none"]
IdleCli ==
    /\ cli = NoCli
    /\ cli_result = NoCli

NoExpr == [kind |-> "none"]
IdleExpr ==
    /\ expr = NoExpr
    /\ expr_result = NoExpr

IdleMore == IdleThread /\ IdleTick /\ IdleUpdate /\ IdleCli /\ IdleExpr

IdleRest == IdleScript /\ IdleProj /\ IdleOr /\ IdleMore

IdleExec ==
    /\ ns = <<>>
    /\ access_level = 0
    /\ kstack = <<>>
    /\ signal = NoSignal
    /\ queries = <<>>
    /\ depth0 = 0
    /\ pushed = 0
    /\ popped = 0
    /\ retval = ""

InitMatch ==
    /\ IdleAccess
    /\ IdleExec
    /\ IdleRest
    /\ params \in ParamLists
    /\ param_collector \in Collectors
    /\ args \in ArgLists
    /\ matched = NoResult
    /\ mpc = "call"

IdleMatch ==
    /\ params = <<>>
    /\ param_collector = ""
    /\ args = <<>>
    /\ matched = NoResult
    /\ mpc = "idle"

MatchCall ==
    /\ mpc = "call"
    /\ matched' = match_params(params, param_collector, args)
    /\ mpc' = "done"
    /\ UNCHANGED <<params, param_collector, args>>
    /\ UNCHANGED <<vars_access, vars_exec, vars_script, vars_proj, vars_or, vars_more>>

NextMatch == MatchCall

SpecMatch == InitMatch /\ [][NextMatch]_vars

\* ======================================================================
\* State, Namespace and access levels (interp_common.py)
\* ======================================================================

\* class AccessLevels
COMPILE == 1
EVALUATE == 2
READ_DB == 3
WRITE_DB == 4
AccessLevels == {COMPILE, EVALUATE, READ_DB, WRITE_DB}

VarNames == {"x", "y"}      \* names a script reads
SetNames == {"x"}           \* names a script binds
Values == {"v1", "v2"}
ParamTypes == {"int", "string"}

\* The attributes of the built-in module, read by State.get_var when every
\* scope misses the name.
BuiltinAttrs ==
    [n \in {"y", "ValueError", "TypeError", "PreqlError"} |->
        CASE n = "y" -> "builtin_y"
          [] n = "ValueError" -> "pql_ValueError"
          [] n = "TypeError" -> "pql_TypeError"
          [] n = "PreqlError" -> "PreqlError"]

\* A scope is a function from the names it binds to their values.
EmptyScope == [n \in {} |-> ""]
ScopeSet(scope, name, value) ==
    [n \in DOMAIN scope \cup {name} |-> IF n = name THEN value ELSE scope[n]]

\* initial_namespace(): one scope that binds the built-in module.
initial_namespace == <<[n \in {"__builtins__"} |-> "module"]>>

NameNotFound(name) == [kind |-> "pql_NameNotFound", value |-> name]
Found(value) == [kind |-> "value", value |-> value]

\* Namespace.get_var: for scope in reversed(self.ns): if name in scope: return
Namespace_get_var_outermost(nss, name) ==
    LET S == {k \in 1..Len(nss) : name \in DOMAIN nss[k]}
    IN IF S = {} THEN NameNotFound(name)
       ELSE Found(nss[CHOOSE k \in S : \A j \in S : k <= j][name])
RECURSIVE Namespace_get_var(_, _)
Namespace_get_var(nss, name) ==
    IF Len(nss) = 0 THEN NameNotFound(name)
    ELSE IF name \in DOMAIN nss[Len(nss)] THEN Found(nss[Len(nss)][name])
    ELSE Namespace_get_var(SubSeq(nss, 1, Len(nss) - 1), name)

\* Module.get_attr(name) of the built-in module.
core_get_attr(name) ==
    IF name \in DOMAIN BuiltinAttrs THEN Found(BuiltinAttrs[name])
    ELSE [kind |-> "pql_AttributeError", value |-> name]

\* State.get_var: the namespace first, then the built-in module's attribute;
\* the first NameNotFound is the one raised when both fail.
get_var(nss, name) ==
    LET r == Namespace_get_var(nss, name)
    IN IF r.kind = "value" THEN r
       ELSE IF Namespace_get_var(nss, "__builtins__").kind # "value" THEN r
       ELSE IF core_get_attr(name).kind = "value" THEN core_get_attr(name)
       ELSE r

\* Namespace.set_var: self.ns[-1][name] = value
set_var(nss, name, value) ==
    [nss EXCEPT ![Len(nss)] = ScopeSet(nss[Len(nss)], name, value)]

\* Namespace.__copy__: Namespace([dict(n) for n in self.ns]).  Scopes are
\* values here, so the copy has the same contents and none of the identity.
Namespace_copy(nss) == [k \in 1..Len(nss) |-> nss[k]]

\* State.clone: a new State with a copy of the namespace and the same level.
clone(inst, parent) ==
    [access_level |-> inst.access_level, ns |-> Namespace_copy(inst.ns),
     parent |-> parent]

\* assert new_level <= self.access_level
reduce_access_assert_off(self, new_level) == TRUE
reduce_access_assert(self, new_level) == new_level <= self.access_level

\* State.reduce_access: s = copy(self); s.access_level = new_level; return s
reduce_access(self, idx, new_level) ==
    [clone(self, idx) EXCEPT !.access_level = new_level]

\* State.require_access: raises InsufficientAccessLevel below the level.
require_access(lvl, level) ==
    IF lvl < level THEN "InsufficientAccessLevel" ELSE ""

\* The tick is a one-element list: ticks holds the lists, a state holds the
\* index of its own.
\* State.__init__: self.tick = [0], self.access_level = WRITE_DB
State_init(tk) ==
    [ticks |-> Append(tk, 0),
     state |-> [tick |-> Len(tk) + 1, access_level |-> WRITE_DB]]

\* State.unique_name: self.tick[0] += 1; return obj + str(self.tick[0])
unique_name_tick(tk, self) == [tk EXCEPT ![self.tick] = @ + 1]
unique_name(tk, self, obj) == obj \o ToString(unique_name_tick(tk, self)[self.tick])

\* The state of the interpreter, and the name that a call of unique_name on
\* it hands out.
TheState == 1
Minted(tk, st, obj) ==
    [state |-> TheState, prefix |-> obj,
     name |-> unique_name(tk, st[TheState], obj),
     tick |-> unique_name_tick(tk, st[TheState])[st[TheState].tick]]

\* compile_to_inst(state, param: ast.Parameter)
is_compile_level_le(lvl) == lvl <= EVALUATE
is_compile_level(lvl) == lvl = COMPILE

compile_to_inst_Parameter(state, name, type) ==
    IF is_compile_level(state.access_level)
    THEN [kind |-> "Instance", code |-> "Parameter", name |-> name,
          type |-> type, subqueries |-> {}, value |-> ""]
    ELSE LET r == get_var(state.ns, name)
         IN [kind |-> r.kind, code |-> "", name |-> name, type |-> "",
             subqueries |-> {}, value |-> r.value]

NoParamResult ==
    [kind |-> "none", code |-> "", name |-> "", type |-> "",
     subqueries |-> {}, value |-> ""]

\* State.__init__: the interpreter's state, at WRITE_DB.
InitAccess ==
    /\ IdleMatch
    /\ IdleExec
    /\ IdleRest
    /\ states = <<[access_level |-> WRITE_DB, ns |-> initial_namespace,
                   parent |-> 0]>>
    /\ aerr = ""
    /\ presult = NoParamResult

\* s2 = states[s].reduce_access(new_level)
ReduceAccess(s, new_level) ==
    /\ IF reduce_access_assert(states[s], new_level)
       THEN /\ Len(states) < MaxStates
            /\ states' = Append(states, reduce_access(states[s], s, new_level))
            /\ aerr' = ""
       ELSE /\ aerr' = "AssertionError"
            /\ UNCHANGED states
    /\ UNCHANGED presult
    /\ UNCHANGED <<vars_match, vars_exec, vars_script, vars_proj, vars_or, vars_more>>

\* states[s].set_var(name, value)
SetVar(s, name, value) ==
    /\ states' = [states EXCEPT ![s].ns = set_var(states[s].ns, name, value)]
    /\ UNCHANGED <<aerr, presult>>
    /\ UNCHANGED <<vars_match, vars_exec, vars_script, vars_proj, vars_or, vars_more>>

\* evaluate(states[s], Parameter(name, type))
EvalParameter(s, name, type) ==
    /\ presult' = compile_to_inst_Parameter(states[s], name, type)
    /\ UNCHANGED <<states, aerr>>
    /\ UNCHANGED <<vars_match, vars_exec, vars_script, vars_proj, vars_or, vars_more>>

\* Any state made so far is reduced or written to.
NextAccess ==
    \/ \E s \in 1..Len(states), l \in AccessLevels : ReduceAccess(s, l)
    \/ \E s \in 1..Len(states), n \in SetNames, v \in Values : SetVar(s, n, v)

SpecAccess == InitAccess /\ [][NextAccess]_vars

\* An evaluation that continues on the state it derived last: it binds
\* names, reduces the access level further and evaluates Parameter nodes.
NextParam ==
    \/ \E l \in AccessLevels : ReduceAccess(Len(states), l)
    \/ \E n \in SetNames, v \in Values : SetVar(Len(states), n, v)
    \/ \E n \in VarNames, t \in ParamTypes : EvalParameter(Len(states), n, t)

SpecParam == InitAccess /\ [][NextParam]_vars

\* ------------------------------------------ claims on access levels

Derived == {d \in 1..Len(states) : states[d].parent # 0}

\* C6: the levels are ordered COMPILE < EVALUATE < READ_DB < WRITE_DB; every
\* state made by reduce_access has a level at most that of the state it was
\* made from, and no step changes the level of a state that exists.
C6_ReduceNeverRaises ==
    /\ [](/\ COMPILE < EVALUATE /\ EVALUATE < READ_DB /\ READ_DB < WRITE_DB
          /\ \A d \in Derived :
                states[d].access_level <= states[states[d].parent].access_level)
    /\ [][\A s \in 1..Len(states) :
             states'[s].access_level = states[s].access_level]_vars

\* C6 witness: a state derived at a lower level from a state that was itself
\* derived at a lower level, and a call asking for a higher level refused.
C6_Witness ==
    /\ aerr = "AssertionError"
    /\ \E d, e \in Derived :
          /\ states[e].parent = d
          /\ states[e].access_level < states[d].access_level
          /\ states[d].access_level < states[states[d].parent].access_level

\* The scopes of a namespace that bind a name.
Binders(nss, n) == {k \in 1..Len(nss) : n \in DOMAIN nss[k]}
Innermost(S) == CHOOSE k \in S : \A j \in S : j <= k

\* C8: a Parameter evaluates to an SQL Parameter instance with the
\* parameter's name and type and no subqueries when the state's level is
\* COMPILE; at every higher level it resolves to the value the namespace
\* binds to the name.
C8_ParameterEval ==
    [][\A n \in VarNames, t \in ParamTypes :
          EvalParameter(Len(states), n, t) =>
             LET state == states[Len(states)]
             IN IF state.access_level = COMPILE
                THEN presult' = [kind |-> "Instance", code |-> "Parameter",
                                 name |-> n, type |-> t, subqueries |-> {},
                                 value |-> ""]
                ELSE /\ presult'.kind # "Instance"
                     /\ Binders(state.ns, n) # {} =>
                           /\ presult'.kind = "value"
                           /\ presult'.value =
                                 state.ns[Innermost(Binders(state.ns, n))][n]]_vars

\* C8 witness: a Parameter was evaluated to an SQL Parameter instance while
\* another state, above COMPILE, binds the name.
C8_Witness ==
    /\ presult.kind = "Instance"
    /\ presult.code = "Parameter"
    /\ \E s \in 1..Len(states) :
          /\ states[s].access_level > COMPILE
          /\ Binders(states[s].ns, presult.name) # {}

\* ======================================================================
\* The statement executor (evaluate.py, compiler.py)
\*
\* A script is not fixed in advance: at every point the next statement or
\* expression is chosen among the constructs below, so that the behaviours
\* are the executions of all scripts whose nesting stays within MaxDepth.
\* kstack holds the constructs being executed; a raised exception is held
\* in signal while it unwinds the constructs one by one.
\* ======================================================================

PreqlError(t) == [kind |-> "PreqlError", type |-> t, value |-> ""]
ReturnSignal(v) == [kind |-> "ReturnSignal", type |-> "", value |-> v]
PyException(t) == [kind |-> "Exception", type |-> t, value |-> ""]

\* exceptions.py: every pql_* error class derives directly from PreqlError.
ThrownTypes == {"pql_ValueError", "pql_TypeError"}
isinstance_any(etype, cls) == TRUE
isinstance(etype, cls) == etype = cls \/ cls = "PreqlError"
ErrorClasses == {"PreqlError", "pql_ValueError", "pql_TypeError"}

\* names handed out by unique_name in one run of the executor
MaxNames == 1

ScriptValues == {"v1"}
\* the value a return gives back: none that a script or an argument binds
ReturnValues == {"v2"}
\* the class named after catch: one of the thrown classes, or the base class
CatchExprs == {"ValueError", "PreqlError"}
CatchNames == {"e"}
WithKinds == {"projection", "selection", "order", "update", "delete"}
\* The arguments of a call of a user function declared with one parameter p.
CallParams == <<"p">>
CallArgs == {<<[name |-> "", value |-> "v1"]>>, <<>>,
             <<[name |-> "p", value |-> "v1"]>>}

Frame(kind, what, left, cexpr, cname, caught) ==
    [kind |-> kind, what |-> what, left |-> left, catch_expr |-> cexpr,
     catch_name |-> cname, caught |-> caught]

TopFrame == kstack[Len(kstack)]
TopKind == IF kstack = <<>> THEN "top" ELSE TopFrame.kind
Pop(seq) == SubSeq(seq, 1, Len(seq) - 1)
Running == signal.kind = "none"
\* Statements are executed at the top level and in the bodies of functions,
\* loops, try and catch blocks and code blocks; inside a projection,
\* selection, order or update only expressions are evaluated.
StmtCtx == TopKind \in {"top", "call", "for", "try", "catch", "block"}
CanNest == Len(kstack) < MaxDepth

\* Namespace.use_scope: self.ns.append(scope) on entry; the finally clause
\* pops on every exit, whether the body returned or raised.
use_scope_enter(nss, scope) == Append(nss, scope)
use_scope_exit_nofinally(nss, sig) == IF sig.kind = "none" THEN Pop(nss) ELSE nss
use_scope_exit(nss, sig) == Pop(nss)

\* The counters of the current top-level statement; a statement that begins
\* at the top level restarts them.
Mark ==
    IF kstack = <<>>
    THEN [d |-> Len(ns), pu |-> 0, po |-> 0]
    ELSE [d |-> depth0, pu |-> pushed, po |-> popped]
Count(npush, npop) ==
    /\ depth0' = Mark.d
    /\ pushed' = Mark.pu + npush
    /\ popped' = Mark.po + npop

\* State.__init__: the one state of the interpreter, its tick at 0.
InitState ==
    /\ ticks = State_init(<<>>).ticks
    /\ tick_states = <<State_init(<<>>).state>>
    /\ minted = <<>>
    /\ upc = <<>>
    /\ ureg = <<>>

\* Interpreter start: State.__init__ with the initial namespace.
Init ==
    /\ IdleMatch
    /\ IdleAccess
    /\ IdleScript
    /\ IdleProj
    /\ IdleOr
    /\ IdleThread
    /\ IdleUpdate
    /\ IdleCli
    /\ IdleExpr
    /\ InitState
    /\ ns = initial_namespace
    /\ access_level = WRITE_DB
    /\ kstack = <<>>
    /\ signal = NoSignal
    /\ queries = <<>>
    /\ depth0 = 1
    /\ pushed = 0
    /\ popped = 0
    /\ retval = ""

\* What a step that calls unique_name leaves alone, and what every other
\* step does.
IdleButTick ==
    UNCHANGED <<vars_match, vars_access, vars_script, vars_proj, vars_or,
                vars_thread, vars_upd, vars_cli, vars_expr, tick_states, upc,
                ureg>>
Idle == IdleButTick /\ UNCHANGED <<ticks, minted>>

\* _execute(SetValue): state.set_var(name, value)
SetValue(n, v) ==
    /\ Running /\ StmtCtx
    /\ ns' = set_var(ns, n, v)
    /\ Count(0, 0)
    /\ UNCHANGED <<access_level, kstack, signal, queries>>
    /\ retval' = ""
    /\ Idle

\* simplify(New) of an exception class builds InternalFunction(name,
\* [Param], create_exception) for the dataclass InternalFunction(name, func,
\* params): the function lands in params, match_params takes its len() and
\* Python raises the builtin TypeError.  No exception object is made.
new_exception(t) == PyException("TypeError")

\* What is thrown: a name that the host bound to an instance of the error
\* class, or `new <class>(...)`.
ThrowForms == {"instance", "new"}

\* _execute(Throw): raise evaluate(state, t.value)
Throw(t, form) ==
    /\ Running /\ StmtCtx
    /\ signal' = IF form = "new" THEN new_exception(t) ELSE PreqlError(t)
    /\ Count(0, 0)
    /\ UNCHANGED <<ns, access_level, kstack, queries>>
    /\ retval' = ""
    /\ Idle

\* An expression evaluated inside a projection, selection, order or update,
\* or as the body of an expression function, raises a PreqlError.
EvalError(t) ==
    /\ Running /\ ~StmtCtx
    /\ signal' = PreqlError(t)
    /\ Count(0, 0)
    /\ UNCHANGED <<ns, access_level, kstack, queries>>
    /\ retval' = ""
    /\ Idle

\* _execute(Return): raise ReturnSignal(value)
Return(v) ==
    /\ Running /\ StmtCtx
    /\ signal' = ReturnSignal(v)
    /\ Count(0, 0)
    /\ UNCHANGED <<ns, access_level, kstack, queries>>
    /\ retval' = ""
    /\ Idle

\* _execute(Try): enter the try block.
BeginTry(cexpr, cname) ==
    /\ Running /\ StmtCtx /\ CanNest
    /\ kstack' = Append(kstack, Frame("try", "", 0, cexpr, cname, ""))
    /\ Count(0, 0)
    /\ UNCHANGED <<ns, access_level, signal, queries>>
    /\ retval' = ""
    /\ Idle

\* _execute(If) / _execute(CodeBlock): enter the nested statements.  The
\* condition is a constant, localized without a query.
BeginBlock ==
    /\ Running /\ StmtCtx /\ CanNest
    /\ kstack' = Append(kstack, Frame("block", "", 0, "", "", ""))
    /\ Count(0, 0)
    /\ UNCHANGED <<ns, access_level, signal, queries>>
    /\ retval' = ""
    /\ Idle

\* _execute(For): localize the iterable (a list instance: one query), then
\* enter the first iteration in a scope that binds the loop variable.
BeginFor(n) ==
    /\ Running /\ StmtCtx /\ CanNest
    /\ Len(queries) < MaxQueries
    /\ queries' = Append(queries, "Select")
    /\ IF n = 0
       THEN /\ Count(0, 0)
            /\ UNCHANGED <<ns, kstack>>
       ELSE /\ Mark.pu < MaxPushes
            /\ ns' = use_scope_enter(ns, [k \in {"i"} |-> "elem"])
            /\ kstack' = Append(kstack, Frame("for", "", n - 1, "", "", ""))
            /\ Count(1, 0)
    /\ UNCHANGED <<access_level, signal>>
    /\ retval' = ""
    /\ Idle

\* simplify(FuncCall) of a user function: match_params, then the body in a
\* scope that binds the parameters.  The body is a CodeBlock ("call") or an
\* expression ("callexpr").
BeginCall(as, kind) ==
    /\ Running /\ CanNest
    /\ LET r == match_params(CallParams, "", as)
       IN IF r.kind = "ok"
          THEN /\ Mark.pu < MaxPushes
               /\ ns' = use_scope_enter(ns,
                          [k \in {r.matched[j][1] : j \in 1..Len(r.matched)} |->
                              LET j == CHOOSE j \in 1..Len(r.matched) :
                                          r.matched[j][1] = k
                              IN r.matched[j][2]])
               /\ kstack' = Append(kstack, Frame(kind, "", 0, "", "", ""))
               /\ Count(1, 0)
               /\ UNCHANGED signal
          ELSE /\ signal' = PyException(r.kind)
               /\ Count(0, 0)
               /\ UNCHANGED <<ns, kstack>>
    /\ UNCHANGED <<access_level, queries>>
    /\ retval' = ""
    /\ Idle

\* table.all_attrs(): the table's columns, one of which has the name of the
\* variable x of the script.
TableAttrs == [k \in {"col", "x"} |-> "column"]

\* compile_to_inst(Projection / Selection / Order), simplify(Update) and the
\* selection of simplify(Delete): the table is evaluated (no query), and its
\* columns are pushed as a scope in which the fields are evaluated.
BeginWith(what) ==
    /\ Running /\ CanNest
    /\ Mark.pu < MaxPushes
    /\ ns' = use_scope_enter(ns, TableAttrs)
    /\ kstack' = Append(kstack, Frame("with", what, 0, "", "", ""))
    /\ Count(1, 0)
    /\ UNCHANGED <<access_level, signal, queries>>
    /\ retval' = ""
    /\ Idle

\* The body of a user function ends without a return: the scope is popped.
EndCall ==
    /\ Running /\ TopKind \in {"call", "callexpr"}
    /\ ns' = use_scope_exit(ns, signal)
    /\ kstack' = Pop(kstack)
    /\ Count(0, Len(ns) - Len(ns'))
    /\ UNCHANGED <<access_level, signal, queries>>
    /\ retval' = IF TopKind = "call" THEN "null" ELSE "expr"
    /\ Idle

\* An iteration of a for loop ends: its scope is popped and the next
\* iteration, if any, is entered in a new scope.
EndFor ==
    /\ Running /\ TopKind = "for"
    /\ IF TopFrame.left > 0
       THEN /\ Mark.pu < MaxPushes
            /\ ns' = use_scope_enter(use_scope_exit(ns, signal),
                                     [k \in {"i"} |-> "elem"])
            /\ kstack' = [kstack EXCEPT ![Len(kstack)].left = @ - 1]
            /\ Count(1, Len(ns) - Len(use_scope_exit(ns, signal)))
       ELSE /\ ns' = use_scope_exit(ns, signal)
            /\ kstack' = Pop(kstack)
            /\ Count(0, Len(ns) - Len(ns'))
    /\ UNCHANGED <<access_level, signal, queries>>
    /\ retval' = ""
    /\ Idle

\* The fields of a projection, selection or order were evaluated: the scope
\* is popped and the table instance is built; nothing is submitted.
\* {n: objects.aggregate(c) for n, c in attrs.items()}: the scope in which
\* the aggregate fields of a projection are evaluated
AggAttrs == [k \in DOMAIN TableAttrs |-> "aggregate"]

\* compile_to_inst(Projection) with aggregate fields, after the plain fields
\* were evaluated: the scope of the columns is popped and the scope of the
\* aggregated columns is pushed.
BeginAgg ==
    /\ Running /\ TopKind = "with"
    /\ TopFrame.what = "projection"
    /\ Mark.pu < MaxPushes
    /\ ns' = use_scope_enter(use_scope_exit(ns, signal), AggAttrs)
    /\ kstack' = [kstack EXCEPT ![Len(kstack)] =
                     Frame("with", "aggregate", 0, "", "", "")]
    /\ Count(1, 1)
    /\ UNCHANGED <<access_level, signal, queries>>
    /\ retval' = ""
    /\ Idle

\* The end of a projection (without aggregate fields, or after them), of a
\* selection and of an order: the scope is popped; a projection then takes
\* its codename.
EndWith ==
    /\ Running /\ TopKind = "with"
    /\ TopFrame.what \in {"projection", "aggregate", "selection", "order"}
    /\ ns' = use_scope_exit(ns, signal)
    /\ kstack' = Pop(kstack)
    /\ Count(0, Len(ns) - Len(ns'))
    /\ IF TopFrame.what \in {"projection", "aggregate"}
       THEN \* codename = state.unique_name('proj')
            /\ Len(minted) < MaxNames
            /\ ticks' = unique_name_tick(ticks, tick_states[TheState])
            /\ minted' = Append(minted, Minted(ticks, tick_states, "proj"))
       ELSE UNCHANGED <<ticks, minted>>
    /\ UNCHANGED <<access_level, signal, queries>>
    /\ retval' = ""
    /\ IdleButTick

\* The rest of simplify(Update) and simplify(Delete) after the scope: the
\* table is localized (one query) and for each of its n rows, in order:
\* a row without id raises a pql_ValueError, (Update only) a field that is
\* no column of the row raises a pql_ValueError, and otherwise one Update /
\* Delete query keyed by the row's id is submitted.
RowQueries(what, n, has_id, keys_ok) ==
    IF has_id /\ (what = "delete" \/ keys_ok)
    THEN [k \in 1..n |-> IF what = "update" THEN "Update" ELSE "Delete"]
    ELSE <<>>
RowSignal(what, n, has_id, keys_ok) ==
    IF n > 0 /\ ~(has_id /\ (what = "delete" \/ keys_ok))
    THEN PreqlError("pql_ValueError")
    ELSE NoSignal

EndUpdate(n, has_id, keys_ok) ==
    /\ Running /\ TopKind = "with"
    /\ TopFrame.what \in {"update", "delete"}
    /\ Len(queries) + 1 + Len(RowQueries(TopFrame.what, n, has_id, keys_ok))
          <= MaxWriteQueries
    /\ ns' = use_scope_exit(ns, signal)
    /\ kstack' = Pop(kstack)
    /\ Count(0, Len(ns) - Len(ns'))
    /\ queries' = queries \o <<"Select">>
                     \o RowQueries(TopFrame.what, n, has_id, keys_ok)
    /\ signal' = RowSignal(TopFrame.what, n, has_id, keys_ok)
    /\ UNCHANGED access_level
    /\ retval' = ""
    /\ Idle

\* The try block, the catch block or a code block ends normally.
EndBlock ==
    /\ Running /\ TopKind \in {"try", "catch", "block"}
    /\ kstack' = Pop(kstack)
    /\ Count(0, 0)
    /\ UNCHANGED <<ns, access_level, signal, queries>>
    /\ retval' = ""
    /\ Idle

\* simplify(FuncCall): the body of a user function that is a CodeBlock is
\* executed under `except ReturnSignal as r: return r.value`.
except_ReturnSignal_never(frame_kind, sig) == FALSE
except_ReturnSignal(frame_kind, sig) ==
    frame_kind = "call" /\ sig.kind = "ReturnSignal"

\* An exception leaves a construct entered through use_scope: the finally
\* clause pops the scope.  simplify(FuncCall) catches the ReturnSignal of a
\* CodeBlock body (except ReturnSignal as r: return r.value).
UnwindScope ==
    /\ ~Running /\ TopKind \in {"call", "callexpr", "for", "with"}
    /\ ns' = use_scope_exit(ns, signal)
    /\ kstack' = Pop(kstack)
    /\ Count(0, Len(ns) - Len(ns'))
    /\ signal' = IF except_ReturnSignal(TopKind, signal)
                 THEN NoSignal ELSE signal
    /\ UNCHANGED <<access_level, queries>>
    /\ retval' = IF except_ReturnSignal(TopKind, signal)
                 THEN signal.value ELSE ""
    /\ Idle

\* _execute(Try): except PreqlError as e.  The catch expression is
\* evaluated and localized; if the error is an instance of it the catch
\* block is executed, else the error is raised again.  Other exceptions
\* (ReturnSignal, Python errors) pass through.
TryExcept ==
    /\ ~Running /\ TopKind = "try"
    /\ Count(0, 0)
    /\ IF signal.kind # "PreqlError"
       THEN /\ kstack' = Pop(kstack)
            /\ UNCHANGED signal
       ELSE LET exc_type == get_var(ns, TopFrame.catch_expr)
            IN IF exc_type.kind # "value"
               THEN \* evaluating the catch expression raised NameNotFound
                    /\ kstack' = Pop(kstack)
                    /\ signal' = PreqlError("pql_NameNotFound")
               ELSE IF exc_type.value \notin ErrorClasses
               THEN \* isinstance() with a second argument that is no class
                    /\ kstack' = Pop(kstack)
                    /\ signal' = PyException("TypeError")
               ELSE IF isinstance(signal.type, exc_type.value)
               THEN /\ kstack' = [kstack EXCEPT ![Len(kstack)] =
                                     Frame("catch", "", 0, TopFrame.catch_expr,
                                           TopFrame.catch_name, signal.type)]
                    /\ signal' = NoSignal
               ELSE /\ kstack' = Pop(kstack)
                    /\ UNCHANGED signal
    /\ UNCHANGED <<ns, access_level, queries>>
    /\ retval' = ""
    /\ Idle

\* An exception leaves a catch block or a code block.
UnwindBlock ==
    /\ ~Running /\ TopKind \in {"catch", "block"}
    /\ kstack' = Pop(kstack)
    /\ Count(0, 0)
    /\ UNCHANGED <<ns, access_level, signal, queries>>
    /\ retval' = ""
    /\ Idle

\* The exception reaches the caller of the interpreter, which reports it;
\* the state is kept and the next statement can be executed.
TopLevel ==
    /\ ~Running /\ kstack = <<>>
    /\ signal' = NoSignal
    /\ UNCHANGED <<ns, access_level, kstack, queries, depth0, pushed, popped>>
    /\ retval' = ""
    /\ Idle

\* _execute(TableDef): resolve binds the table's name in the current scope,
\* compile_type_def builds the DDL and state.db.query submits it.
TableDef ==
    /\ Running /\ StmtCtx
    /\ Len(queries) < MaxWriteQueries
    /\ ns' = set_var(ns, "P", "table")
    /\ queries' = Append(queries, "CreateTable")
    /\ Count(0, 0)
    /\ UNCHANGED <<access_level, kstack, signal>>
    /\ retval' = ""
    /\ Idle

\* assert_type(new.meta, obj, types.TableType, msg) gives four arguments to
\* assert_type(t, type_, state, ast, op, msg=...): op is missing and the call
\* itself raises the builtin TypeError.
assert_type_call == PyException("TypeError")

\* _new_row: the InsertConsts query, then LastRowId.
new_row == <<"InsertConsts", "LastRowId">>

\* simplify(New) of a table name: the name is looked up, then assert_type
\* is called; _new_row comes after it.
simplify_New(nss) ==
    IF get_var(nss, "P").kind # "value"
    THEN [signal |-> PreqlError("pql_NameNotFound"), queries |-> <<>>]
    ELSE IF assert_type_call # NoSignal
    THEN [signal |-> assert_type_call, queries |-> <<>>]
    ELSE [signal |-> NoSignal, queries |-> new_row]

\* new P(...)
NewRow ==
    /\ Running
    /\ LET r == simplify_New(ns)
       IN /\ Len(queries) + Len(r.queries) <= MaxWriteQueries
          /\ signal' = r.signal
          /\ queries' = queries \o r.queries
    /\ Count(0, 0)
    /\ UNCHANGED <<ns, access_level, kstack>>
    /\ retval' = ""
    /\ Idle

\* The l-value of an insert: the table's name, or an attribute.
LValues == {"Name", "Attr"}
\* The compiled source of an insert: a table with the target's columns, a
\* table that lacks one of them, or the empty list.
InsertSources == {"table", "missing_column", "EmptyList"}

\* source.all_attrs(): the columns of the source of an insert
SourceAttrs == [k \in {"id", "col", "x"} |-> "column"]

CopyOutcome(sig, qs, scopes, names) ==
    [signal |-> sig, queries |-> qs, scopes |-> scopes, names |-> names]

\* exclude_fields(state, source, primary_keys) evaluates the projection
\* source{... !id}: compile_to_inst(Projection) pushes the scope of the
\* source's columns, pops it, and calls state.unique_name('proj') once.
exclude_fields_scopes == <<SourceAttrs>>

\* _copy_rows: nothing is done for the empty list; the target name is looked
\* up; a target column that the source lacks raises the builtin TypeError
\* (evaluate.py imports no name TypeError); otherwise the primary keys are
\* projected away from the source and one Insert query is submitted.
\* scopes are the scopes pushed and popped on the way, names the number of
\* calls of unique_name.
copy_rows(nss, source) ==
    IF source = "EmptyList" THEN CopyOutcome(NoSignal, <<>>, <<>>, 0)
    ELSE IF get_var(nss, "P").kind # "value"
    THEN CopyOutcome(PreqlError("pql_NameNotFound"), <<>>, <<>>, 0)
    ELSE IF source = "missing_column"
    THEN CopyOutcome(PyException("TypeError"), <<>>, <<>>, 0)
    ELSE CopyOutcome(NoSignal, <<"Insert">>, exclude_fields_scopes,
                     Len(exclude_fields_scopes))

\* The scopes are pushed and popped one after the other, each one whole.
RECURSIVE through_scopes(_, _)
through_scopes(nss, scopes) ==
    IF scopes = <<>> THEN nss
    ELSE through_scopes(use_scope_exit(use_scope_enter(nss, Head(scopes)),
                                       NoSignal),
                        Tail(scopes))

\* _execute(InsertRows): an l-value that is no Name raises pql_SyntaxError;
\* otherwise the source is compiled and _copy_rows copies it.
InsertRows(lvalue, source) ==
    /\ Running /\ StmtCtx
    /\ Len(queries) < MaxWriteQueries
    /\ LET r == IF lvalue # "Name"
                THEN CopyOutcome(PreqlError("pql_SyntaxError"), <<>>, <<>>, 0)
                ELSE copy_rows(ns, source)
       IN /\ signal' = r.signal
          /\ queries' = queries \o r.queries
          /\ ns' = through_scopes(ns, r.scopes)
          /\ Count(Len(r.scopes), Len(r.scopes))
          /\ IF r.names > 0
             THEN /\ ticks' = unique_name_tick(ticks, tick_states[TheState])
                  /\ minted' = Append(minted,
                                     Minted(ticks, tick_states, "proj"))
             ELSE UNCHANGED <<ticks, minted>>
    /\ UNCHANGED <<access_level, kstack>>
    /\ retval' = ""
    /\ IdleButTick

\* The caller continues on state.reduce_access(new_level): a copy of the
\* state (same bindings) at the new level.  Done between two statements.
ReduceLevel(new_level) ==
    /\ Running /\ kstack = <<>>
    /\ reduce_access_assert([access_level |-> access_level], new_level)
    /\ new_level # access_level
    /\ access_level' = reduce_access([access_level |-> access_level,
                                      ns |-> ns, parent |-> 0], 0,
                                     new_level).access_level
    /\ ns' = reduce_access([access_level |-> access_level, ns |-> ns,
                            parent |-> 0], 0, new_level).ns
    /\ UNCHANGED <<kstack, signal, queries, depth0, pushed, popped>>
    /\ retval' = ""
    /\ Idle

Next ==
    \/ \E n \in SetNames, v \in ScriptValues : SetValue(n, v)
    \/ \E t \in ThrownTypes, form \in ThrowForms : Throw(t, form)
    \/ \E t \in ThrownTypes : EvalError(t)
    \/ \E v \in ReturnValues : Return(v)
    \/ \E ce \in CatchExprs, cn \in CatchNames : BeginTry(ce, cn)
    \/ BeginBlock
    \/ \E n \in 0..MaxIter : BeginFor(n)
    \/ \E as \in CallArgs, k \in {"call", "callexpr"} : BeginCall(as, k)
    \/ \E w \in WithKinds \ {"delete"} : BeginWith(w)
    \/ EndCall
    \/ EndFor
    \/ BeginAgg
    \/ EndWith
    \/ \E n \in 0..MaxRows, has_id \in BOOLEAN, keys_ok \in BOOLEAN :
          EndUpdate(n, has_id, keys_ok)
    \/ EndBlock
    \/ UnwindScope
    \/ TryExcept
    \/ UnwindBlock
    \/ TopLevel

\* Scripts of control flow, calls and table expressions.
Spec == Init /\ [][Next]_vars

\* ----------------------------------------------------------------------
\* Namespace by its own methods (interp_common.py): use_scope, push_scope,
\* pop_scope, set_var and get_var called one after another by a caller that
\* is no statement.  push_scope and pop_scope are called by no handler of
\* evaluate.py or compiler.py; there every scope goes through use_scope.
\* ----------------------------------------------------------------------

\* scopes on the stack at once
MaxScopes == 3

\* self.ns.append({})
push_scope(nss) == Append(nss, EmptyScope)
\* self.ns.pop(), of a stack that is not empty
pop_scope(nss) == Pop(nss)
\* assert x == len(self.ns), x the depth at which use_scope was entered
use_scope_assert(x, nss) == x = Len(nss)

\* The scopes given to use_scope.
ScopeArgs == {TableAttrs, [k \in {"p"} |-> "v1"]}

PushScope ==
    /\ Running
    /\ Len(ns) < MaxScopes
    /\ ns' = push_scope(ns)
    /\ UNCHANGED <<access_level, kstack, signal, queries, depth0, pushed,
                   popped>>
    /\ retval' = ""
    /\ Idle

\* list.pop of the empty list raises IndexError.
PopScope ==
    /\ Running
    /\ IF ns = <<>>
       THEN /\ signal' = PyException("IndexError")
            /\ UNCHANGED ns
       ELSE /\ ns' = pop_scope(ns)
            /\ UNCHANGED signal
    /\ UNCHANGED <<access_level, kstack, queries, depth0, pushed, popped>>
    /\ retval' = ""
    /\ Idle

\* with ns.use_scope(scope): the frame keeps x in its field left.
UseScope(scope) ==
    /\ Running /\ CanNest
    /\ Len(ns) < MaxScopes
    /\ ns' = use_scope_enter(ns, scope)
    /\ kstack' = Append(kstack, Frame("scope", "", Len(ns), "", "", ""))
    /\ UNCHANGED <<access_level, signal, queries, depth0, pushed, popped>>
    /\ retval' = ""
    /\ Idle

\* The finally clause of use_scope, reached when the body ends or raises:
\* the top scope is popped, whichever it is, and the depth is compared with
\* the one at entry.
ExitScope ==
    /\ TopKind = "scope"
    /\ kstack' = Pop(kstack)
    /\ IF ns = <<>>
       THEN /\ signal' = PyException("IndexError")
            /\ UNCHANGED ns
       ELSE /\ ns' = use_scope_exit(ns, signal)
            /\ signal' = IF use_scope_assert(TopFrame.left, ns') THEN signal
                         ELSE PyException("AssertionError")
    /\ UNCHANGED <<access_level, queries, depth0, pushed, popped>>
    /\ retval' = ""
    /\ Idle

\* Namespace.set_var: self.ns[-1][name] = value; with no scope on the stack
\* the index raises IndexError.
BindVar(n, v) ==
    /\ Running
    /\ IF ns = <<>>
       THEN /\ signal' = PyException("IndexError")
            /\ UNCHANGED ns
       ELSE /\ ns' = set_var(ns, n, v)
            /\ UNCHANGED signal
    /\ UNCHANGED <<access_level, kstack, queries, depth0, pushed, popped>>
    /\ retval' = ""
    /\ Idle

\* State.get_var: the value found, or pql_NameNotFound.
LookupVar(n) ==
    /\ Running
    /\ IF get_var(ns, n).kind = "value"
       THEN /\ retval' = get_var(ns, n).value
            /\ UNCHANGED signal
       ELSE /\ retval' = ""
            /\ signal' = PreqlError("pql_NameNotFound")
    /\ UNCHANGED <<ns, access_level, kstack, queries, depth0, pushed, popped>>
    /\ Idle

NextScope ==
    \/ PushScope
    \/ PopScope
    \/ \E sc \in ScopeArgs : UseScope(sc)
    \/ ExitScope
    \/ \E n \in SetNames, v \in ScriptValues : BindVar(n, v)
    \/ \E n \in SetNames : LookupVar(n)
    \/ TopLevel

SpecScope == Init /\ [][NextScope]_vars

\* Scripts of database statements, run at any access level: table
\* definitions, new rows, inserts, updates and deletes, at the top level or
\* in the body of a user function.
NextDB ==
    \/ TableDef
    \/ NewRow
    \/ \E lv \in LValues, src \in InsertSources : InsertRows(lv, src)
    \/ \E w \in {"update", "delete"} : BeginWith(w)
    \/ \E n \in 0..MaxRows, has_id \in BOOLEAN, keys_ok \in BOOLEAN :
          EndUpdate(n, has_id, keys_ok)
    \/ \E t \in ThrownTypes : EvalError(t)
    \/ \E as \in CallArgs : BeginCall(as, "call")
    \/ \E v \in ReturnValues : Return(v)
    \/ EndCall
    \/ UnwindScope
    \/ TopLevel
    \/ \E l \in AccessLevels : ReduceLevel(l)

SpecDB == Init /\ [][NextDB]_vars

\* ======================================================================
\* Interpreter._execute_code: one script, statement by statement
\* (core/interpreter.py); each step executes one top-level statement whole.
\* ======================================================================

\* statements of a script
MaxStmts == 3

\* table P {...}  |  x = v1  |  new P(...)  |  P += <a table of one row>  |
\* print count(P)  |  print x  |  return v1  |  throw new ValueError(...)  |
\* and the expression statements that build a table expression:
\* P {...}  |  P [cond]  |  P order {x}  |  P [1..]
TableExprs == {"expr", "selection", "order", "slice"}
StmtKinds ==
    {"table", "set", "new", "insert", "print", "print_x", "return", "throw"}
       \cup TableExprs
\* The scripts: P is defined at most once.
Scripts ==
    {sc \in SeqsUpTo(StmtKinds, MaxStmts) :
        Cardinality({j \in 1..Len(sc) : sc[j] = "table"}) <= 1}

Signal(t, msg) == [kind |-> "Signal", type |-> t, value |-> msg]

\* The database applies one query: CreateTable makes P, InsertConsts adds a
\* row, Insert adds the one row of its source; the other queries change
\* nothing.
db_apply(d, q) ==
    IF q = "CreateTable" THEN [d EXCEPT !.exists = TRUE]
    ELSE IF q \in {"InsertConsts", "Insert"} THEN [d EXCEPT !.rows = @ + 1]
    ELSE d
RECURSIVE db_apply_all(_, _)
db_apply_all(d, qs) ==
    IF qs = <<>> THEN d ELSE db_apply_all(db_apply(d, Head(qs)), Tail(qs))

\* state.db.query called for each query of a statement, in call order.
db_query_front(qs, new) == new \o qs
db_query(qs, new) == qs \o new

\* An instance: a ValueInstance holds its local value; any other Instance
\* only its code (the subqueries travel with the code).
Instance(type, code, local_value) ==
    [type |-> type, code |-> code, local_value |-> local_value]

\* localize: the queries it submits, and the value it returns (for a query,
\* what the database answers: here the number of rows of P).
localize(inst) ==
    IF inst.type = "ValueInstance" THEN <<>> ELSE <<inst.code>>
localize_value(inst, d) ==
    IF inst.type = "ValueInstance" THEN inst.local_value ELSE ToString(d.rows)

\* What a statement did: scopes are the scopes it pushed and popped, names
\* the number of its calls of unique_name.
StmtScoped(nss, new_queries, out, sig, scopes, names) ==
    [ns |-> nss, queries |-> new_queries, printed |-> out, signal |-> sig,
     scopes |-> scopes, names |-> names]
StmtOutcome(nss, new_queries, out, sig) ==
    StmtScoped(nss, new_queries, out, sig, <<>>, 0)

\* compile_to_inst of a projection, selection or order evaluates its fields
\* or conditions in the scope of the table's columns; a slice evaluates its
\* bounds in the scope it is in.
expr_scopes(kind) == IF kind = "slice" THEN <<>> ELSE <<TableAttrs>>
\* Only a projection takes a codename.
expr_names(kind) == IF kind = "expr" THEN 1 ELSE 0
\* None of the four calls state.db.query: the instance built holds the code
\* and the subqueries, for localize to submit.
expr_queries_eager(kind) == <<"Select">>
expr_queries(kind) == <<>>

\* execute(stmt) for a statement at the top level.
execute_stmt(kind, nss, d) ==
    LET P == get_var(nss, "P")
    IN CASE kind = "table" ->
              \* _execute(TableDef)
              StmtOutcome(set_var(nss, "P", "table"), <<"CreateTable">>, <<>>,
                          NoSignal)
         [] kind = "set" ->
              \* _execute(SetValue)
              StmtOutcome(set_var(nss, "x", "v1"), <<>>, <<>>, NoSignal)
         [] kind = "new" ->
              \* simplify(New)
              StmtOutcome(nss, simplify_New(nss).queries, <<>>,
                          simplify_New(nss).signal)
         [] kind = "insert" ->
              \* _execute(InsertRows) -> _copy_rows
              LET r == copy_rows(nss, "table")
              IN StmtScoped(through_scopes(nss, r.scopes), r.queries, <<>>,
                            r.signal, r.scopes, r.names)
         [] kind = "print" ->
              \* _execute(Print): localize(evaluate(count(P)))
              IF P.kind # "value"
              THEN StmtOutcome(nss, <<>>, <<>>, PreqlError("pql_NameNotFound"))
              ELSE LET inst == Instance("Instance", "Select", "")
                   IN StmtOutcome(nss, localize(inst),
                                  <<localize_value(inst, d)>>, NoSignal)
         [] kind = "print_x" ->
              \* _execute(Print): localize(evaluate(x)), x a local value
              IF get_var(nss, "x").kind # "value"
              THEN StmtOutcome(nss, <<>>, <<>>, PreqlError("pql_NameNotFound"))
              ELSE LET inst == Instance("ValueInstance", "Primitive",
                                        get_var(nss, "x").value)
                   IN StmtOutcome(nss, localize(inst),
                                  <<localize_value(inst, d)>>, NoSignal)
         [] kind \in TableExprs ->
              \* evaluate(stmt): compile_to_inst evaluates the table, then
              \* builds the instance
              IF P.kind # "value"
              THEN StmtOutcome(nss, <<>>, <<>>, PreqlError("pql_NameNotFound"))
              ELSE StmtScoped(through_scopes(nss, expr_scopes(kind)),
                              expr_queries(kind), <<>>, NoSignal,
                              expr_scopes(kind), expr_names(kind))
         [] kind = "return" ->
              \* _execute(Return)
              StmtOutcome(nss, <<>>, <<>>, ReturnSignal("v1"))
         [] kind = "throw" ->
              \* _execute(Throw) of new ValueError(...)
              StmtOutcome(nss, <<>>, <<>>, new_exception("pql_ValueError"))

\* _execute_code: except ReturnSignal: raise Signal.make(T.CodeError, ...);
\* any other exception leaves the loop as it is.
execute_code_except_continue(sig) == NoSignal
execute_code_except(sig) ==
    IF sig.kind = "ReturnSignal"
    THEN Signal("CodeError", "'return' outside of function")
    ELSE sig

InitScript ==
    /\ IdleMatch
    /\ IdleAccess
    /\ IdleProj
    /\ IdleOr
    /\ IdleThread
    /\ IdleUpdate
    /\ IdleCli
    /\ IdleExpr
    /\ InitState
    /\ ns = initial_namespace
    /\ access_level = WRITE_DB
    /\ kstack = <<>>
    /\ signal = NoSignal
    /\ queries = <<>>
    /\ depth0 = 1
    /\ pushed = 0
    /\ popped = 0
    /\ retval = ""
    /\ script \in Scripts
    /\ pc = 1
    /\ printed = <<>>
    /\ db = NoDb

\* One iteration of `for stmt in stmts: last = execute(stmt)`.
ExecStmt ==
    /\ pc \in 1..Len(script)
    /\ signal = NoSignal
    /\ LET r == execute_stmt(script[pc], ns, db)
           sig == execute_code_except(r.signal)
       IN /\ ns' = r.ns
          /\ queries' = db_query(queries, r.queries)
          /\ db' = db_apply_all(db, r.queries)
          /\ printed' = printed \o r.printed
          /\ signal' = sig
          /\ pc' = IF sig = NoSignal THEN pc + 1 ELSE pc
          /\ Count(Len(r.scopes), Len(r.scopes))
          /\ IF r.names > 0
             THEN /\ ticks' = unique_name_tick(ticks, tick_states[TheState])
                  /\ minted' = Append(minted,
                                     Minted(ticks, tick_states, "proj"))
             ELSE UNCHANGED <<ticks, minted>>
    /\ UNCHANGED <<access_level, kstack, retval, script>>
    /\ UNCHANGED <<vars_match, vars_access, vars_proj, vars_or, vars_thread,
                   vars_upd, vars_cli, vars_expr, tick_states, upc, ureg>>

NextScript == ExecStmt

SpecScript == InitScript /\ [][NextScript]_vars

\* C12: a return at the top level of a script is reported as the CodeError
\* "'return' outside of function" and leaves what the statements before it
\* did (bindings, queries, rows, output) as it is; once reported, no
\* statement of the script is executed any more.
C12_TopLevelReturn ==
    [][/\ (pc \in 1..Len(script) /\ script[pc] = "return") =>
             /\ signal' = Signal("CodeError", "'return' outside of function")
             /\ pc' = pc
             /\ UNCHANGED <<ns, queries, db, printed>>
       /\ signal.kind # "Signal"]_vars

\* C12 witness: the second of three statements was a return, reported after
\* the first statement submitted its query.
C12_Witness ==
    /\ Len(script) = 3
    /\ pc = 2
    /\ script[2] = "return"
    /\ signal.kind = "Signal"
    /\ queries # <<>>

\* ------------------------------------------------ claims on the executor

\* C1: when a top-level statement has ended, normally or by a PreqlError or
\* a ReturnSignal that reached the top level, every scope it pushed has been
\* popped and the scope stack is as deep as when the statement began.
C1_ScopeLifecycle ==
    kstack = <<>> => (Len(ns) = depth0 /\ popped = pushed)

\* C1 witness: a statement that pushed at least two scopes was ended by an
\* exception, which has reached the top level.
C1_Witness ==
    /\ kstack = <<>>
    /\ signal.kind \in {"PreqlError", "ReturnSignal"}
    /\ pushed >= 2

\* C11: a ReturnSignal raised in the body of a user function leaves the
\* constructs of the body one by one, unchanged and uncaught (also by a
\* try), while nothing else of the body is executed; at the call it is
\* caught, the call ends with the returned value and nothing propagates.
C11_ReturnEndsCall ==
    [][(signal.kind = "ReturnSignal" /\ kstack # <<>>) =>
          /\ kstack' = Pop(kstack)
          /\ queries' = queries
          /\ \A k \in 1..Len(ns') : ns'[k] = ns[k]
          /\ IF TopKind = "call"
             THEN signal' = NoSignal /\ retval' = signal.value
             ELSE signal' = signal]_vars

\* C11 witness: `return v2` inside a try block inside the body of a user
\* function is leaving the try block.
C11_Witness ==
    /\ Len(kstack) = 2
    /\ kstack[1].kind = "call"
    /\ kstack[2].kind = "try"
    /\ signal = ReturnSignal("v2")

\* The error class that the catch expression of the innermost try denotes,
\* "" when it denotes none.
CatchClass ==
    LET r == get_var(ns, TopFrame.catch_expr)
    IN IF r.kind = "value" /\ r.value \in ErrorClasses THEN r.value ELSE ""
\* exceptions.py: the error classes and their one base class.
KindMatches(etype, cls) == cls = "PreqlError" \/ etype = cls

\* C9: a PreqlError raised in the try block whose class is the caught class
\* or a subclass of it starts the catch block and is no longer propagated;
\* a PreqlError of another class leaves the try with the same error still
\* propagating; a catch block is entered in no other way; a try block that
\* ends without an error, and a catch block that ends without one, leave the
\* statement with nothing propagating.
C9_TryCatch ==
    [][/\ (TopKind = "try" /\ signal.kind = "PreqlError" /\ CatchClass # "") =>
             IF KindMatches(signal.type, CatchClass)
             THEN /\ Len(kstack') = Len(kstack)
                  /\ kstack'[Len(kstack')].kind = "catch"
                  /\ kstack'[Len(kstack')].caught = signal.type
                  /\ signal' = NoSignal
             ELSE /\ kstack' = Pop(kstack)
                  /\ signal' = signal
       /\ (/\ kstack' # <<>>
           /\ Len(kstack') = Len(kstack)
           /\ kstack'[Len(kstack')].kind = "catch"
           /\ TopKind # "catch") =>
             /\ TopKind = "try"
             /\ signal.kind = "PreqlError"
             /\ CatchClass # ""
             /\ KindMatches(signal.type, CatchClass)
       /\ (TopKind \in {"try", "catch"} /\ Running
              /\ Len(kstack') < Len(kstack)) =>
             /\ kstack' = Pop(kstack)
             /\ signal' = NoSignal]_vars

\* C9 witness: the catch block of `catch: PreqlError` runs for a
\* pql_ValueError raised in the try block (a subclass match).
C9_Witness ==
    /\ TopKind = "catch"
    /\ Running
    /\ TopFrame.caught = "pql_ValueError"
    /\ TopFrame.catch_expr = "PreqlError"

\* C10: while the catch block of a try executes, catch_name resolves to the
\* caught error.
C10_CatchNameBound ==
    (TopKind = "catch" /\ Running) =>
        /\ get_var(ns, TopFrame.catch_name).kind = "value"
        /\ get_var(ns, TopFrame.catch_name).value = TopFrame.caught

\* The queries that write to the database.
WriteQueries == {"CreateTable", "InsertConsts", "Insert", "Update", "Delete"}

\* C7: on a state below WRITE_DB no step submits a query that writes, and a
\* table definition, a new row and an insert raise InsufficientAccessLevel
\* and submit nothing.
C7_WriteNeedsAccess ==
    [][access_level < WRITE_DB =>
          /\ \A k \in (Len(queries) + 1)..Len(queries') :
                queries'[k] \notin WriteQueries
          /\ (TableDef \/ NewRow \/ InsertRows("Name", "table")) =>
                /\ signal'.type = require_access(access_level, WRITE_DB)
                /\ queries' = queries]_vars

\* ======================================================================
\* compile_to_inst(Projection) (compiler.py)
\* ======================================================================

\* fields of a projection
MaxFields == 3
\* aggregate fields of a projection
MaxAggFields == 1

\* A NamedField: name is "" when the field has none; the value is a Name
\* (ref is the column it names), an Ellipsis (with its exclude list), an
\* Attr (ref is the Name it is taken from, attr the attribute), a FuncCall
\* (ref is the name of the function), a Projection (ref is the name of its
\* table) or another expression.
FieldOf(name, kind, ref, attr, exclude) ==
    [name |-> name, kind |-> kind, ref |-> ref, attr |-> attr,
     exclude |-> exclude]
NamedField(name, kind, ref, exclude) == FieldOf(name, kind, ref, "", exclude)

\* a  |  a1  |  a1: a  |  ...  |  ... !a  |  e: ...  |  a.a1
FieldForms ==
    {NamedField("", "Name", "a", {}), NamedField("", "Name", "a1", {}),
     NamedField("a1", "Name", "a", {}),
     NamedField("", "Ellipsis", "", {}), NamedField("", "Ellipsis", "", {"a"}),
     NamedField("e", "Ellipsis", "", {}),
     FieldOf("", "Attr", "a", "a1", {})}
\* a1: count(a)  |  count(a)  |  count(a) + 1
AggFieldForms ==
    {NamedField("a1", "FuncCall", "count", {}),
     NamedField("", "FuncCall", "count", {}),
     NamedField("", "Arith", "", {})}

\* What proj.table evaluates to, and the columns of a table or struct.
TableKinds == {"EmptyList", "ResolveParametersString", "int", "struct", "table"}
ColumnLists == {<<"a", "a1">>, <<"a1", "b", "a">>}
NoColumns == <<>>

\* Projection.__post_init__: with groupby there are fields or aggregate
\* fields; without it there are fields and no aggregate fields.
Projections ==
    {pr \in [table : TableKinds, columns : ColumnLists \cup {NoColumns},
             fields : SeqsUpTo(FieldForms, MaxFields),
             agg_fields : SeqsUpTo(AggFieldForms, MaxAggFields),
             groupby : BOOLEAN] :
        /\ (pr.table \in {"struct", "table"}) = (pr.columns # NoColumns)
        /\ pr.groupby => (pr.fields # <<>> \/ pr.agg_fields # <<>>)
        /\ ~pr.groupby => (pr.fields # <<>> /\ pr.agg_fields = <<>>)}

SeqToSet(sq) == {sq[k] : k \in 1..Len(sq)}

\* _expand_ellipsis: the names that fields refer to directly
direct_names(fields) ==
    {fields[k].ref : k \in {j \in 1..Len(fields) : fields[j].kind = "Name"}}

\* the columns an ellipsis yields, in the table's order
RECURSIVE ellipsis_fields(_, _)
ellipsis_fields(columns, exclude) ==
    IF columns = <<>> THEN <<>>
    ELSE (IF Head(columns) \notin exclude
          THEN <<NamedField(Head(columns), "Name", Head(columns), {})>>
          ELSE <<>>) \o ellipsis_fields(Tail(columns), exclude)

ellipsis_exclude_own(direct, f) == f.exclude
ellipsis_exclude(direct, f) == direct \cup f.exclude

\* _expand_ellipsis: the expanded fields, or the pql_SyntaxError of an
\* ellipsis that carries a name.
RECURSIVE expand_from(_, _, _)
expand_from(columns, direct, rest) ==
    IF rest = <<>> THEN [kind |-> "ok", fields |-> <<>>]
    ELSE LET f == Head(rest)
         IN IF f.kind = "Ellipsis" /\ f.name # ""
            THEN [kind |-> "pql_SyntaxError", fields |-> <<>>]
            ELSE LET tl == expand_from(columns, direct, Tail(rest))
                     here == IF f.kind = "Ellipsis"
                             THEN ellipsis_fields(columns,
                                                  ellipsis_exclude(direct, f))
                             ELSE <<f>>
                 IN IF tl.kind # "ok" THEN tl
                    ELSE [kind |-> "ok", fields |-> here \o tl.fields]

expand_ellipsis(columns, fields) ==
    expand_from(columns, direct_names(fields), fields)

\* find_duplicate(seq, key): the first key that occurs a second time, ""
\* when the keys are distinct.
find_duplicate(keys) ==
    LET dups == {k \in 1..Len(keys) : \E j \in 1..(k - 1) : keys[j] = keys[k]}
    IN IF dups = {} THEN ""
       ELSE keys[CHOOSE k \in dups : \A j \in dups : k <= j]

\* [f for f in list(proj.fields) + list(proj.agg_fields) if f.name]
dup_candidates_plain(fields, agg_fields) ==
    SelectSeq(fields, LAMBDA f : f.name # "")
dup_candidates(fields, agg_fields) ==
    SelectSeq(fields \o agg_fields, LAMBDA f : f.name # "")

field_names(fields) == [k \in 1..Len(fields) |-> fields[k].name]

\* guess_field_name: the overloads for Attr (the guess of its expression,
\* a dot, the attribute), Name, Projection (the guess of its table) and
\* FuncCall (the guess of its function); '_' for every other node.  The
\* expression of an Attr, the table of a Projection and the function of a
\* FuncCall are Names here.
guess_field_name(f) ==
    CASE f.kind = "Attr" -> f.ref \o "." \o f.attr
      [] f.kind \in {"Name", "Projection", "FuncCall"} -> f.ref
      [] OTHER -> "_"

\* suggested_name.rsplit('.', 1)[-1]: the text after the last dot
RECURSIVE rfind_dot(_, _)
rfind_dot(text, i) ==
    IF i = 0 THEN 0
    ELSE IF SubSeq(text, i, i) = "." THEN i
    ELSE rfind_dot(text, i - 1)
rsplit_last(text) == SubSeq(text, rfind_dot(text, Len(text)) + 1, Len(text))

\* _process_fields: the name of each field (the last part of its own, or of
\* the guessed one); a Name that the scope does not bind, on its own or as
\* the expression of an Attr, raises pql_NameNotFound.
process_fields(scope, fields) ==
    IF \E k \in 1..Len(fields) :
          fields[k].kind \in {"Name", "Attr"} /\ fields[k].ref \notin scope
    THEN [kind |-> "pql_NameNotFound", names |-> <<>>]
    ELSE [kind |-> "ok",
          names |-> [k \in 1..Len(fields) |->
                        rsplit_last(IF fields[k].name # "" THEN fields[k].name
                                    ELSE guess_field_name(fields[k]))]]

\* name = name_; i = 1; while name in elems: name = name_ + str(i); i += 1
RECURSIVE free_name(_, _, _, _)
free_name(name_, name, i, elems) ==
    IF name \notin SeqToSet(elems) THEN name
    ELSE free_name(name_, name_ \o ToString(i), i + 1, elems)

\* the keys of elems, in insertion order
RECURSIVE make_elems(_, _)
make_elems(names, elems) ==
    IF names = <<>> THEN elems
    ELSE make_elems(Tail(names),
                    Append(elems, free_name(Head(names), Head(names), 1, elems)))

\* dict(fields) of a struct projection: one key per name, in the order of
\* the first occurrence.
RECURSIVE dict_keys(_, _)
dict_keys(names, keys) ==
    IF names = <<>> THEN keys
    ELSE dict_keys(Tail(names),
                   IF Head(names) \in SeqToSet(keys) THEN keys
                   ELSE Append(keys, Head(names)))

\* groupby = [Primitive(int, str(i+1)) for i in range(len(fields))]
group_by_all(fields, agg_fields) == [i \in 1..(Len(fields) + Len(agg_fields)) |-> i]
group_by(fields, agg_fields) == [i \in 1..Len(fields) |-> i]

ProjResult(kind, columns, fields, gb, limit, dup) ==
    [kind |-> kind, columns |-> columns, fields |-> fields, group_by |-> gb,
     limit |-> limit, dup |-> dup]
ProjError(kind, dup) == ProjResult(kind, <<>>, <<>>, <<>>, 0, dup)

\* compile_to_inst(Projection); limit 0 stands for None.
compile_to_inst_Projection(pr) ==
    IF pr.table = "EmptyList" THEN ProjError("EmptyList", "")
    ELSE IF pr.table = "ResolveParametersString"
    THEN ProjError("InsufficientAccessLevel", "")
    ELSE IF pr.table \notin {"struct", "table"}
    THEN ProjError("pql_TypeError", "")
    ELSE
    LET expanded == expand_ellipsis(pr.columns, pr.fields)
        dup == find_duplicate(field_names(dup_candidates(pr.fields,
                                                         pr.agg_fields)))
        fields == process_fields(SeqToSet(pr.columns), expanded.fields)
        agg_fields == process_fields(SeqToSet(pr.columns), pr.agg_fields)
    IN IF expanded.kind # "ok" THEN ProjError(expanded.kind, "")
       ELSE IF dup # "" THEN ProjError("pql_TypeError", dup)
       ELSE IF fields.kind # "ok" THEN ProjError(fields.kind, "")
       ELSE IF pr.table = "struct"
       THEN ProjResult("StructInstance", dict_keys(fields.names, <<>>),
                       expanded.fields, <<>>, 0, "")
       ELSE IF agg_fields.kind # "ok" THEN ProjError(agg_fields.kind, "")
       ELSE ProjResult("TableInstance",
                       make_elems(fields.names \o agg_fields.names, <<>>),
                       expanded.fields,
                       IF pr.groupby /\ fields.names # <<>>
                       THEN group_by(fields.names, agg_fields.names) ELSE <<>>,
                       IF pr.groupby /\ fields.names = <<>> THEN 1 ELSE 0,
                       "")

InitProj ==
    /\ IdleMatch
    /\ IdleAccess
    /\ IdleExec
    /\ IdleScript
    /\ IdleOr
    /\ IdleThread
    /\ IdleUpdate
    /\ IdleCli
    /\ IdleExpr
    /\ ticks = State_init(<<>>).ticks
    /\ tick_states = <<State_init(<<>>).state>>
    /\ minted = <<>>
    /\ upc = <<>>
    /\ ureg = <<>>
    /\ proj \in Projections
    /\ proj_result = NoProj

\* evaluate(state, proj) of a Projection node.  A projection that gets as
\* far as the new table type has called state.unique_name('proj') on the
\* way (the codename is not used afterwards): the state's tick has advanced.
CompileProjection ==
    /\ proj_result = NoProj
    /\ proj_result' = compile_to_inst_Projection(proj)
    /\ IF proj_result'.kind = "TableInstance"
       THEN /\ ticks' = unique_name_tick(ticks, tick_states[1])
            /\ minted' = Append(minted,
                               [state |-> 1, prefix |-> "proj",
                                name |-> unique_name(ticks, tick_states[1],
                                                     "proj"),
                                tick |-> ticks'[tick_states[1].tick]])
       ELSE UNCHANGED <<ticks, minted>>
    /\ UNCHANGED <<proj, tick_states, upc, ureg>>
    /\ UNCHANGED <<vars_match, vars_access, vars_exec, vars_script, vars_or,
                   vars_thread, vars_upd, vars_cli, vars_expr>>

NextProj == CompileProjection

SpecProj == InitProj /\ [][NextProj]_vars

\* --------------------------------------------- claims on the projection

\* The name a field is given: its own, or the name its value suggests.
GivenName(f) ==
    IF f.name # "" THEN f.name
    ELSE CASE f.kind \in {"Name", "FuncCall"} -> f.ref
           [] f.kind = "Attr" -> f.attr
           [] OTHER -> "_"
\* The fields of the compiled projection, plain (expanded) then aggregate,
\* and the names they are given.
AllFields == proj_result.fields \o proj.agg_fields
GivenNames13 == [k \in 1..Len(AllFields) |-> GivenName(AllFields[k])]
IsTable == proj_result.kind = "TableInstance"

\* C13: the column names of a projected table are pairwise distinct, there
\* is one column per field, the first field given a name keeps that name,
\* and a later field given the same name gets it with a numeric suffix.
C13_ColumnNaming ==
    IsTable =>
       LET cols == proj_result.columns
           names == GivenNames13
       IN /\ Len(cols) = Len(names)
          /\ \A j, k \in 1..Len(cols) : j # k => cols[j] # cols[k]
          /\ \A k \in 1..Len(cols) :
                IF \A j \in 1..(k - 1) : names[j] # names[k]
                THEN cols[k] = names[k]
                ELSE \E n \in 1..Len(cols) : cols[k] = names[k] \o ToString(n)

\* C14: in the Select of a projected table, with groupby and n >= 1
\* non-aggregate fields group_by is <<1, ..., n>> and there is no limit;
\* with groupby and no non-aggregate field group_by is empty and the limit
\* is 1; without groupby group_by is empty and there is no limit.
C14_Grouping ==
    IsTable =>
       LET n == Len(proj_result.fields)
       IN /\ (proj.groupby /\ n >= 1) =>
                /\ proj_result.group_by = [i \in 1..n |-> i]
                /\ proj_result.limit = 0
          /\ (proj.groupby /\ n = 0) =>
                /\ proj_result.group_by = <<>>
                /\ proj_result.limit = 1
          /\ ~proj.groupby =>
                /\ proj_result.group_by = <<>>
                /\ proj_result.limit = 0

\* C14 witness: a grouped projection with two non-aggregate fields and an
\* aggregate field was compiled.
C14_Witness ==
    /\ IsTable
    /\ proj.groupby
    /\ Len(proj_result.fields) = 2
    /\ proj.agg_fields # <<>>

\* The columns that the non-ellipsis fields name directly.
NamedColumns ==
    {proj.fields[k].ref :
        k \in {j \in 1..Len(proj.fields) : proj.fields[j].kind = "Name"}}
\* What one field of the projection stands for after expansion.
Expansion(f) ==
    IF f.kind # "Ellipsis" THEN <<f>>
    ELSE LET keep == SelectSeq(proj.columns,
                               LAMBDA c : c \notin NamedColumns \cup f.exclude)
         IN [k \in 1..Len(keep) |-> NamedField(keep[k], "Name", keep[k], {})]
RECURSIVE Flatten(_)
Flatten(sqs) == IF sqs = <<>> THEN <<>> ELSE Head(sqs) \o Flatten(Tail(sqs))

\* C15: the fields of a compiled projection are its own fields in order,
\* with every ellipsis replaced, at its position and in the table's column
\* order, by one NamedField(name, Name(name)) per column that no other
\* field names and that its exclude list does not hold.
C15_EllipsisExpansion ==
    proj_result.kind \in {"TableInstance", "StructInstance"} =>
       proj_result.fields =
          Flatten([k \in 1..Len(proj.fields) |-> Expansion(proj.fields[k])])

\* C15 witness: a compiled projection of a three-column table has a field
\* that names a column, and an ellipsis that expands to the other two.
C15_Witness ==
    /\ IsTable
    /\ Len(proj.columns) = 3
    /\ Len(proj.fields) = 2
    /\ proj.fields[1].kind = "Ellipsis"
    /\ proj.fields[2].kind = "Name"
    /\ Len(proj_result.fields) = 3

\* Two fields of the projection, plain or aggregate, carry the same name.
ExplicitFields == proj.fields \o proj.agg_fields
HasDuplicate ==
    \E j, k \in 1..Len(ExplicitFields) :
       /\ j < k
       /\ ExplicitFields[j].name # ""
       /\ ExplicitFields[j].name = ExplicitFields[k].name
Compiled == proj_result # NoProj

\* C16 as stated: every projection in which two explicitly named fields
\* share a name raises a TypeError and produces no instance.
C16_DuplicateAlways ==
    (Compiled /\ HasDuplicate) => proj_result.kind = "pql_TypeError"

\* C16 amended: a projection of a table or struct instance, none of whose
\* ellipsis fields carries a name, in which two explicitly named fields
\* share a name raises the TypeError of the duplicate name and produces no
\* instance.
C16_Duplicate ==
    (/\ Compiled
     /\ HasDuplicate
     /\ proj.table \in {"struct", "table"}
     /\ \A k \in 1..Len(proj.fields) :
           proj.fields[k].kind = "Ellipsis" => proj.fields[k].name = "") =>
       /\ proj_result.kind = "pql_TypeError"
       /\ proj_result.dup # ""
       /\ proj_result.columns = <<>>

\* C16 witness: a plain field and an aggregate field of a table projection
\* are both named a1, and the projection was compiled.
C16_Witness ==
    /\ Compiled
    /\ proj.table = "table"
    /\ Len(proj.fields) = 1
    /\ proj.fields[1].name = "a1"
    /\ Len(proj.agg_fields) = 1
    /\ proj.agg_fields[1].name = "a1"

\* ======================================================================
\* simplify(Or) and test_nonzero (evaluate.py)
\* ======================================================================

\* arguments of an Or expression
MaxOrArgs == 3

\* What an argument evaluates to: a ValueInstance with a truthy or falsy
\* local value, a TableInstance with or without rows, or a PreqlError.
OrArgForms ==
    {[kind |-> "value", nonzero |-> TRUE], [kind |-> "value", nonzero |-> FALSE],
     [kind |-> "table", nonzero |-> TRUE], [kind |-> "table", nonzero |-> FALSE],
     [kind |-> "raise", nonzero |-> FALSE]}
OrArgLists == SeqsUpTo(OrArgForms, MaxOrArgs) \ {<<>>}

\* call_pql_func(state, "count", [table]) builds a FuncCall whose argument
\* is the table itself, no NamedField: match_params reads arg.name, which a
\* TableInstance does not have, and the builtin AttributeError is raised.
call_pql_func_count == "AttributeError"

\* test_nonzero: bool(inst.local_value) for a ValueInstance; for a
\* TableInstance the count is called first, so that localize is not reached.
test_nonzero(inst) ==
    IF inst.kind = "table"
    THEN [raised |-> call_pql_func_count, nz |-> FALSE]
    ELSE [raised |-> "", nz |-> inst.nonzero]
\* the queries test_nonzero submits: none, as localize is called for no
\* argument
test_nonzero_queries(inst) == 0

OrResult(kind, inst, inspected, nqueries) ==
    [kind |-> kind, inst |-> inst, inspected |-> inspected,
     queries |-> nqueries]

\* simplify(Or) from the k-th argument on, nq queries submitted so far:
\* the index of the instance returned and of the last argument evaluated.
RECURSIVE simplify_Or_from(_, _, _)
simplify_Or_from(as, k, nq) ==
    IF as[k].kind = "raise" THEN OrResult("PreqlError", 0, k, nq)
    ELSE IF test_nonzero(as[k]).raised # ""
    THEN OrResult(test_nonzero(as[k]).raised, 0, k, nq)
    ELSE LET n == nq + test_nonzero_queries(as[k])
         IN IF test_nonzero(as[k]).nz THEN OrResult("Instance", k, k, n)
            ELSE IF k = Len(as) THEN OrResult("Instance", k, k, n)
            ELSE simplify_Or_from(as, k + 1, n)

simplify_Or(as) == simplify_Or_from(as, 1, 0)

InitOr ==
    /\ IdleMatch
    /\ IdleAccess
    /\ IdleExec
    /\ IdleScript
    /\ IdleProj
    /\ IdleMore
    /\ or_args \in OrArgLists
    /\ or_result = [kind |-> "none"]

\* evaluate(state, obj) of an Or node
EvalOr ==
    /\ or_result = [kind |-> "none"]
    /\ or_result' = simplify_Or(or_args)
    /\ UNCHANGED or_args
    /\ UNCHANGED <<vars_match, vars_access, vars_exec, vars_script, vars_proj,
                   vars_more>>

NextOr == EvalOr

SpecOr == InitOr /\ [][NextOr]_vars

\* The arguments that stop the evaluation: the ones that test non-zero or
\* raise.
OrStops ==
    {k \in 1..Len(or_args) : or_args[k].kind = "raise" \/ or_args[k].nonzero}
OrFirstStop == CHOOSE k \in OrStops : \A j \in OrStops : k <= j

\* C17: Or evaluates its arguments from the left and no further than the
\* first one that tests non-zero, which it returns; when every argument
\* tests zero it returns the last argument's instance.  A value is non-zero
\* when its local value is truthy, a table when it has rows.
C17_OrShortCircuit ==
    or_result.kind # "none" =>
       IF OrStops = {}
       THEN /\ or_result.kind = "Instance"
            /\ or_result.inst = Len(or_args)
            /\ or_result.inspected = Len(or_args)
       ELSE /\ or_result.inspected = OrFirstStop
            /\ or_args[OrFirstStop].nonzero =>
                  /\ or_result.kind = "Instance"
                  /\ or_result.inst = OrFirstStop

\* ------------------------------------------- claims on name resolution

\* The names looked up: bound by the script and by a table's scope (x), by
\* a call's scope (p), an attribute of the built-in module (y), unknown (zz).
LookupNames == {"x", "p", "y", "zz"}

\* C18: a name resolves to its binding in the innermost scope that binds
\* it; when no scope binds it, to the attribute of that name of the built-in
\* module; when there is none either, NameNotFound is raised.  Assigning to
\* a name binds it in the innermost scope and changes no other scope and no
\* other name.
C18_NameResolution ==
    /\ [](\A n \in LookupNames :
            get_var(ns, n) =
               IF Binders(ns, n) # {}
               THEN Found(ns[Innermost(Binders(ns, n))][n])
               ELSE IF n \in DOMAIN BuiltinAttrs THEN Found(BuiltinAttrs[n])
               ELSE NameNotFound(n))
    /\ [][\A n \in SetNames, v \in ScriptValues :
            SetValue(n, v) =>
               /\ Len(ns') = Len(ns)
               /\ \A k \in 1..(Len(ns) - 1) : ns'[k] = ns[k]
               /\ ns'[Len(ns)][n] = v
               /\ DOMAIN ns'[Len(ns)] = DOMAIN ns[Len(ns)] \cup {n}
               /\ \A m \in DOMAIN ns[Len(ns)] \ {n} :
                     ns'[Len(ns)][m] = ns[Len(ns)][m]]_vars

\* C18 witness: inside a projection the column x shadows the variable x
\* that the script bound in the base scope.
C18_Witness ==
    /\ Len(ns) >= 2
    /\ "x" \in DOMAIN ns[1]
    /\ ns[1]["x"] = "v1"
    /\ "x" \in DOMAIN ns[Len(ns)]
    /\ ns[Len(ns)]["x"] = "column"

\* --------------------------------------------- claims on script order

\* The queries a statement that succeeds submits, in order.
QueriesOf(kind) ==
    CASE kind = "table" -> <<"CreateTable">>
      [] kind = "insert" -> <<"Insert">>
      [] kind = "print" -> <<"Select">>
      [] OTHER -> <<>>
\* The positions of the print statements executed so far, in order.
PrintsDone ==
    SelectSeq([j \in 1..(pc - 1) |-> j],
              LAMBDA j : script[j] \in {"print", "print_x"})

\* C19: the statements executed so far are the first pc - 1 of the script;
\* the queries submitted are theirs, statement by statement in source
\* order, and every print shows the rows that the insert statements before
\* it added.
C19_SequentialEffects ==
    /\ queries = Flatten([j \in 1..(pc - 1) |-> QueriesOf(script[j])])
    /\ printed =
          [m \in 1..Len(PrintsDone) |->
              IF script[PrintsDone[m]] = "print_x" THEN "v1"
              ELSE ToString(Cardinality({i \in 1..(PrintsDone[m] - 1) :
                                           script[i] = "insert"}))]

\* C19 witness: table P, P += <one row>, print count(P) were executed; the
\* print showed the one row.
C19_Witness ==
    /\ script = <<"table", "insert", "print">>
    /\ pc = 4
    /\ printed = <<"1">>

\* C20: a statement that only builds a table expression (a projection, a
\* selection, an order or a slice) submits no query;
\* printing a ValueInstance shows its local value and submits no query;
\* printing any other instance submits exactly one query, the instance's
\* code; and a query that fetches rows is submitted by no other statement.
C20_LazinessBoundary ==
    [][LET new == SubSeq(queries', Len(queries) + 1, Len(queries'))
       IN /\ queries = SubSeq(queries', 1, Len(queries))
          /\ script[pc] \in TableExprs => new = <<>>
          /\ script[pc] = "print_x" =>
                /\ new = <<>>
                /\ signal' = NoSignal =>
                      printed' = Append(printed, get_var(ns, "x").value)
          /\ (script[pc] = "print" /\ signal' = NoSignal) => new = <<"Select">>
          /\ (\E k \in 1..Len(new) : new[k] = "Select") =>
                script[pc] = "print"]_vars

\* C20 witness: after table P, a selection, order or slice of P was built
\* and then count(P) was printed: the only queries are the table definition
\* and the one of the print.
C20_Witness ==
    /\ pc = 4
    /\ script[1] = "table"
    /\ script[2] \in TableExprs \ {"expr"}
    /\ script[3] = "print"
    /\ printed = <<"0">>
    /\ queries = <<"CreateTable", "Select">>

\* ======================================================================
\* Interpreter and LocalCopy: the per-thread copies of the state
\* (core/interpreter.py, interp_common.py)
\* ======================================================================

\* threads that call the entry points of one interpreter
MaxThreads == 2
\* scope dicts allocated in one run
MaxDicts == 4

Threads == 1..MaxThreads
ThreadNames == {"x"}
\* the objects a host program hands to Interpreter.set_var
HostObjects == {"o1", "o2"}
\* the object that code run by thread t creates
OwnObject(t) == "t" \o ToString(t)

\* The scopes that a list of dict identities denotes.
deref(h, ids) == [k \in 1..Len(ids) |-> h[ids[k]]]

\* Namespace.__copy__: Namespace([dict(n) for n in self.ns]): one new dict
\* per scope, holding the same objects under the same names.
copy_Namespace_same_dicts(h, ids) == [heap |-> h, ns |-> ids]
copy_Namespace(h, ids) ==
    [heap |-> h \o deref(h, ids),
     ns |-> [k \in 1..Len(ids) |-> Len(h) + k]]

\* LocalCopy.__getattr__ runs when the thread has no attribute yet: it copies
\* the item and stores the copy with setattr; later accesses find the
\* attribute and do not reach __getattr__.
LocalCopy_getattr_every_access(h, lc, item, t) ==
    LET c == copy_Namespace(h, item)
    IN [heap |-> c.heap, local |-> [lc EXCEPT ![t] = c.ns]]
LocalCopy_getattr(h, lc, item, t) ==
    IF lc[t] # <<>> THEN [heap |-> h, local |-> lc]
    ELSE LET c == copy_Namespace(h, item)
         IN [heap |-> c.heap, local |-> [lc EXCEPT ![t] = c.ns]]

\* Interpreter.setup_context: context(state=self._local_copies.state)
setup_context(t) == LocalCopy_getattr(heap, local_copies, interp_state, t)

\* Namespace.set_var on a namespace of dicts: self.ns[-1][name] = value
set_var_dict(h, ids, name, value) ==
    [h EXCEPT ![ids[Len(ids)]] = ScopeSet(@, name, value)]

\* Interpreter.__init__: the state over initial_namespace(), no thread has
\* touched _local_copies.
InitThread ==
    /\ IdleMatch
    /\ IdleAccess
    /\ IdleExec
    /\ IdleScript
    /\ IdleProj
    /\ IdleOr
    /\ IdleTick
    /\ IdleUpdate
    /\ IdleCli
    /\ IdleExpr
    /\ heap = initial_namespace
    /\ interp_state = <<1>>
    /\ local_copies = [t \in Threads |-> <<>>]
    /\ seen = NoSeen
    /\ last_set = NoSet

ThreadIdle ==
    UNCHANGED <<vars_match, vars_access, vars_exec, vars_script, vars_proj,
                vars_or, vars_tick, vars_upd, vars_cli, vars_expr>>

\* execute_code on thread t of code that binds name n to a new object:
\* the entry point takes the thread's state, execute(SetValue) binds in it.
ExecuteBind(t, n) ==
    LET c == setup_context(t)
    IN /\ Len(c.heap) <= MaxDicts
       /\ heap' = set_var_dict(c.heap, c.local[t], n, OwnObject(t))
       /\ local_copies' = c.local
       /\ seen' = NoSeen
       /\ last_set' = IF last_set.thread = t /\ last_set.name = n
                      THEN NoSet ELSE last_set
       /\ UNCHANGED interp_state
       /\ ThreadIdle

\* execute_code on thread t of code that reads name n.
ExecuteRead(t, n) ==
    LET c == setup_context(t)
        r == get_var(deref(c.heap, c.local[t]), n)
    IN /\ Len(c.heap) <= MaxDicts
       /\ heap' = c.heap
       /\ local_copies' = c.local
       /\ seen' = [thread |-> t, name |-> n, kind |-> r.kind,
                   value |-> r.value]
       /\ UNCHANGED <<interp_state, last_set>>
       /\ ThreadIdle

\* Interpreter.set_var called by thread t: self.state.set_var(name, value)
Interpreter_set_var(t, n, v) ==
    /\ heap' = set_var_dict(heap, interp_state, n, v)
    /\ last_set' = [thread |-> t, name |-> n, value |-> v]
    /\ seen' = NoSeen
    /\ UNCHANGED <<interp_state, local_copies>>
    /\ ThreadIdle

NextThread ==
    \/ \E t \in Threads, n \in ThreadNames : ExecuteBind(t, n)
    \/ \E t \in Threads, n \in ThreadNames : ExecuteRead(t, n)
    \/ \E t \in Threads, n \in ThreadNames, v \in HostObjects :
           Interpreter_set_var(t, n, v)

SpecThread == InitThread /\ [][NextThread]_vars

\* What code run by thread t would read for name n, once t has its copy.
ThreadView(t, n) == get_var(deref(heap, local_copies[t]), n)

\* C21: each thread works on its own copy of the state, made at the thread's
\* first access and used again at every later one; an object that one thread
\* binds in its copy is never read through another thread's copy or through
\* the original, while at the moment of copying the copy binds, under every
\* name, the very object the original binds.
C21_Isolated ==
    \A t \in Threads, n \in ThreadNames :
        /\ get_var(deref(heap, interp_state), n) # Found(OwnObject(t))
        /\ \A u \in Threads \ {t} :
               local_copies[u] # <<>> => ThreadView(u, n) # Found(OwnObject(t))
C21_Reused ==
    \A t \in Threads :
        local_copies[t] # <<>> => local_copies'[t] = local_copies[t]
C21_SharedAtCopy ==
    \A t \in Threads :
        (local_copies[t] = <<>> /\ local_copies'[t] # <<>>) =>
            /\ \A u \in Threads \ {t} : local_copies'[u] = local_copies[u]
            /\ \A n \in ThreadNames \cup {"__builtins__"} :
                   \/ get_var(deref(heap', local_copies'[t]), n) =
                          get_var(deref(heap, interp_state), n)
                   \/ /\ get_var(deref(heap', local_copies'[t]), n) =
                             Found(OwnObject(t))
                      /\ seen' = NoSeen
C21_ThreadCopies ==
    /\ []C21_Isolated
    /\ [][C21_Reused /\ C21_SharedAtCopy]_vars
\* Both threads have their copy, one has bound its own object under a name
\* that the other reads as the host object bound before the copies were made.
C21_Witness ==
    /\ local_copies[1] # <<>>
    /\ local_copies[2] # <<>>
    /\ ThreadView(1, "x") = Found(OwnObject(1))
    /\ ThreadView(2, "x") = Found("o1")
    /\ get_var(deref(heap, interp_state), "x") = Found("o1")

\* ======================================================================
\* State.unique_name and the tick shared by cloned states (interp_common.py)
\* ======================================================================

\* unique_name calls in one run
MaxCalls == 3
\* states made in one run, the original included
MaxTickStates == 3

\* the prefixes the compiler passes: unique_name('proj'), unique_name("list_")
Prefixes == {"proj", "list_"}

\* State.clone: s = cls(...); s.tick = inst.tick;
\* s.access_level = inst.access_level
clone_State_own_tick(tk, inst) ==
    LET s == State_init(tk)
    IN [ticks |-> s.ticks,
        state |-> [s.state EXCEPT !.access_level = inst.access_level]]
clone_State(tk, inst) ==
    LET s == State_init(tk)
    IN [ticks |-> s.ticks,
        state |-> [s.state EXCEPT !.tick = inst.tick,
                                  !.access_level = inst.access_level]]

TickOthersIdle ==
    UNCHANGED <<vars_match, vars_access, vars_exec, vars_script, vars_proj,
                vars_or, vars_thread, vars_upd, vars_cli, vars_expr>>

InitTick ==
    /\ IdleMatch
    /\ IdleAccess
    /\ IdleExec
    /\ IdleScript
    /\ IdleProj
    /\ IdleOr
    /\ IdleThread
    /\ IdleUpdate
    /\ IdleCli
    /\ IdleExpr
    /\ ticks = State_init(<<>>).ticks
    /\ tick_states = <<State_init(<<>>).state>>
    /\ minted = <<>>
    /\ upc = <<>>
    /\ ureg = <<>>

\* copy(state) of the state s
TickClone(s) ==
    /\ Len(tick_states) < MaxTickStates
    /\ LET c == clone_State(ticks, tick_states[s])
       IN /\ ticks' = c.ticks
          /\ tick_states' = Append(tick_states, c.state)
    /\ UNCHANGED <<minted, upc, ureg>>
    /\ TickOthersIdle

\* state.reduce_access(new_level) of the state s
TickReduceAccess(s, new_level) ==
    /\ Len(tick_states) < MaxTickStates
    /\ reduce_access_assert(tick_states[s], new_level)
    /\ LET c == clone_State(ticks, tick_states[s])
       IN /\ ticks' = c.ticks
          /\ tick_states' =
                 Append(tick_states, [c.state EXCEPT !.access_level = new_level])
    /\ UNCHANGED <<minted, upc, ureg>>
    /\ TickOthersIdle

\* state.unique_name(obj) on the state s, run without interruption
UniqueName(s, obj) ==
    /\ Len(minted) < MaxCalls
    /\ ticks' = unique_name_tick(ticks, tick_states[s])
    /\ minted' = Append(minted,
                       [state |-> s, prefix |-> obj,
                        name |-> unique_name(ticks, tick_states[s], obj),
                        tick |-> ticks'[tick_states[s].tick]])
    /\ UNCHANGED <<tick_states, upc, ureg>>
    /\ TickOthersIdle

NextTick ==
    \/ \E s \in 1..Len(tick_states) : TickClone(s)
    \/ \E s \in 1..Len(tick_states), l \in AccessLevels : TickReduceAccess(s, l)
    \/ \E s \in 1..Len(tick_states), p \in Prefixes : UniqueName(s, p)

SpecTick == InitTick /\ [][NextTick]_vars

\* C22: over any sequence of unique_name calls on a state and on the states
\* cloned from it, by copy or by reduce_access, each call leaves the tick
\* above what every earlier call left, and two calls given the same prefix
\* never return the same name.
C22_UniqueNames ==
    \A i, j \in 1..Len(minted) :
        i < j =>
            /\ minted[i].tick < minted[j].tick
            /\ minted[i].prefix = minted[j].prefix =>
                   minted[i].name # minted[j].name
\* Two calls with the same prefix, made on a state and on a clone of a
\* reduced clone of it.
C22_Witness ==
    /\ Len(minted) >= 2
    /\ Len(tick_states) = 3
    /\ tick_states[2].access_level < WRITE_DB
    /\ \E i, j \in 1..Len(minted) :
           /\ i < j
           /\ minted[i].prefix = minted[j].prefix
           /\ minted[i].state = 1
           /\ minted[j].state = 3

\* ======================================================================
\* simplify(Update), row by row (evaluate.py)
\* ======================================================================

\* rows of the table an Update is applied to
MaxUpdRows == 2

UpdColumns == {"id", "name", "age"}
UpdFields == {"id", "name", "zip"}

\* The rows the database returns for the table: every row of one result has
\* the columns of the table; row k has the id k.
table_rows(cols, n) ==
    [k \in 1..n |-> [c \in cols |-> IF c = "id" THEN k ELSE 0]]

Updates ==
    [kind : {"Update"}, columns : SUBSET UpdColumns \ {{}},
     nrows : 0..MaxUpdRows, fields : SUBSET UpdFields \ {{}}]

sql_Select == [op |-> "Select", id |-> 0, fields |-> {}]
\* sql.Update(null, TableName, sql_proj, [Compare('=', [Name('id'), id_])])
sql_Update(id_, fields) == [op |-> "Update", id |-> id_, fields |-> fields]

UpdateIdError == "Update error: Table does not contain id"
UpdateKeysError == "Update error: Not all keys exist in table"

\* set(proj) < set(row): a proper subset
proper_subset(a, b) == a \subseteq b /\ a # b

\* The body of the loop over the rows: the two tests, then the query.
update_row_query_first(row, fields) ==
    IF "id" \notin DOMAIN row
    THEN [queries |-> <<>>, error |-> UpdateIdError]
    ELSE [queries |-> <<sql_Update(row["id"], fields)>>,
          error |-> IF ~proper_subset(fields, DOMAIN row)
                    THEN UpdateKeysError ELSE ""]
update_row(row, fields) ==
    IF "id" \notin DOMAIN row
    THEN [queries |-> <<>>, error |-> UpdateIdError]
    ELSE IF ~proper_subset(fields, DOMAIN row)
    THEN [queries |-> <<>>, error |-> UpdateKeysError]
    ELSE [queries |-> <<sql_Update(row["id"], fields)>>, error |-> ""]

\* for row in localize(state, table): ... ; an error ends the loop
update_rows_first_only(rows, fields, k, qs) ==
    IF k > Len(rows) THEN [queries |-> qs, error |-> ""]
    ELSE [queries |-> qs \o update_row(rows[k], fields).queries,
          error |-> update_row(rows[k], fields).error]
RECURSIVE update_rows(_, _, _, _)
update_rows(rows, fields, k, qs) ==
    IF k > Len(rows) THEN [queries |-> qs, error |-> ""]
    ELSE LET r == update_row(rows[k], fields)
         IN IF r.error # ""
            THEN [queries |-> qs \o r.queries, error |-> r.error]
            ELSE update_rows(rows, fields, k + 1, qs \o r.queries)

\* simplify(state, u: ast.Update): the table is localized (one query), then
\* the loop runs over its rows.
simplify_Update(u) ==
    LET r == update_rows(table_rows(u.columns, u.nrows), u.fields, 1,
                         <<sql_Select>>)
    IN [kind |-> "done", queries |-> r.queries, error |-> r.error]

InitUpdate ==
    /\ IdleMatch
    /\ IdleAccess
    /\ IdleExec
    /\ IdleScript
    /\ IdleProj
    /\ IdleOr
    /\ IdleThread
    /\ IdleTick
    /\ IdleCli
    /\ IdleExpr
    /\ upd \in Updates
    /\ upd_result = NoUpdate

\* evaluate(state, u) of an Update node
EvalUpdate ==
    /\ upd_result = NoUpdate
    /\ upd_result' = simplify_Update(upd)
    /\ UNCHANGED upd
    /\ UNCHANGED <<vars_match, vars_access, vars_exec, vars_script, vars_proj,
                   vars_or, vars_thread, vars_tick, vars_cli, vars_expr>>

NextUpdate == EvalUpdate

SpecUpdate == InitUpdate /\ [][NextUpdate]_vars

UpdateQueries(qs) == SelectSeq(qs, LAMBDA q : q.op = "Update")
UpdateDone == upd_result # NoUpdate

\* C23 as stated: every Update submits one Update query per row of the
\* evaluated table, each keyed by that row's id and assigning the given
\* fields, unless the rows have no id column, when it raises a ValueError.
PerRowUpdates == [k \in 1..upd.nrows |-> sql_Update(k, upd.fields)]
C23_UpdateAlways ==
    UpdateDone =>
        IF upd.nrows > 0 /\ "id" \notin upd.columns
        THEN upd_result.error = UpdateIdError
        ELSE /\ upd_result.error = ""
             /\ UpdateQueries(upd_result.queries) = PerRowUpdates

\* C23, amended: an Update whose given fields are a proper subset of the
\* columns of the rows submits one Update query per row of the evaluated
\* table, in row order, each keyed by that row's id and assigning the given
\* fields; an Update of a table that has rows and no id column raises the
\* ValueError "Table does not contain id".
C23_UpdatePerRow ==
    UpdateDone =>
        /\ (upd.nrows > 0 /\ "id" \notin upd.columns) =>
               upd_result.error = UpdateIdError
        /\ (upd.nrows = 0 \/
            ("id" \in upd.columns /\ proper_subset(upd.fields, upd.columns))) =>
               /\ upd_result.error = ""
               /\ UpdateQueries(upd_result.queries) = PerRowUpdates
\* A table of two rows updated in one field: two Update queries.
C23_Witness ==
    /\ UpdateDone
    /\ upd.nrows = 2
    /\ upd.columns = {"id", "name"}
    /\ upd.fields = {"name"}
    /\ upd_result.error = ""
    /\ Len(UpdateQueries(upd_result.queries)) = 2

\* ======================================================================
\* The command line's main (__main__.py)
\* ======================================================================

\* What running the script, the module or the .preql file can end with.
RunOutcomes == {"ok", "Signal", "KeyboardInterrupt"}

\* The parsed arguments, whether a .preql file is found, and the outcome of
\* the code that main runs, if it runs any.
CliRuns ==
    [kind : {"args"}, file : BOOLEAN, module : BOOLEAN, version : BOOLEAN,
     install_jupyter : BOOLEAN, interactive : BOOLEAN,
     python_traceback : BOOLEAN, dot_preql : BOOLEAN, outcome : RunOutcomes]

\* The branch of the try block that main takes.
main_branch(a) ==
    IF a.file THEN "file"
    ELSE IF a.module THEN "module"
    ELSE IF a.version \/ a.install_jupyter THEN "pass"
    ELSE IF a.dot_preql THEN "dot_preql"
    ELSE "repl"

\* The exception that leaves the try block, "ok" if none does.
main_raised(a) ==
    IF main_branch(a) \in {"file", "module", "dot_preql"} THEN a.outcome
    ELSE "ok"

\* interactive = args.interactive, set to True at the end of the last branch
main_interactive(a) ==
    IF main_branch(a) \in {"dot_preql", "repl"} /\ main_raised(a) = "ok"
    THEN TRUE
    ELSE a.interactive

\* error_code = 0, set to -1 by `except Signal`
error_code_always_zero(raised) == "0"
error_code(raised) == IF raised = "Signal" THEN "-1" ELSE "0"

main(a) ==
    IF a.install_jupyter
    THEN [kind |-> "return", value |-> "None", repl |-> FALSE]
    ELSE IF main_raised(a) = "Signal" /\ a.python_traceback
    THEN [kind |-> "raise", value |-> "Signal", repl |-> FALSE]
    ELSE IF main_interactive(a)
    THEN [kind |-> "return", value |-> "None", repl |-> TRUE]
    ELSE [kind |-> "return", value |-> error_code(main_raised(a)),
          repl |-> FALSE]

InitMain ==
    /\ IdleMatch
    /\ IdleAccess
    /\ IdleExec
    /\ IdleScript
    /\ IdleProj
    /\ IdleOr
    /\ IdleThread
    /\ IdleTick
    /\ IdleUpdate
    /\ IdleExpr
    /\ cli \in CliRuns
    /\ cli_result = NoCli

RunMain ==
    /\ cli_result = NoCli
    /\ cli_result' = main(cli)
    /\ UNCHANGED cli
    /\ UNCHANGED <<vars_match, vars_access, vars_exec, vars_script, vars_proj,
                   vars_or, vars_thread, vars_tick, vars_upd, vars_expr>>

NextMain == RunMain

SpecMain == InitMain /\ [][NextMain]_vars

MainDone == cli_result # NoCli
\* main ran a script or a module and a Signal left it
SignalInRun ==
    /\ ~cli.install_jupyter
    /\ main_branch(cli) \in {"file", "module"}
    /\ cli.outcome = "Signal"
\* main ended without any exception leaving the code it ran
NormalRun == cli.install_jupyter \/ main_raised(cli) = "ok"
\* returning None stands for the exit code 0
ExitZero == cli_result.kind = "return" /\ cli_result.value \in {"0", "None"}

\* C24 as stated: main returns the exit code 0 on normal completion, and -1
\* whenever a Signal is raised by the script or module it runs and the run
\* is not interactive.
C24_ExitCodeAlways ==
    MainDone =>
        /\ NormalRun => ExitZero
        /\ (SignalInRun /\ ~cli.interactive) =>
               (cli_result.kind = "return" /\ cli_result.value = "-1")

\* C24, amended: main returns the exit code 0 on normal completion, and -1
\* when a Signal is raised by the script or module it runs, the run is not
\* interactive and --python-traceback is not given.
C24_ExitCode ==
    MainDone =>
        /\ NormalRun => ExitZero
        /\ (SignalInRun /\ ~cli.interactive /\ ~cli.python_traceback) =>
               (cli_result.kind = "return" /\ cli_result.value = "-1")
\* A script run without -i ends with a Signal and main returns -1.
C24_Witness ==
    /\ MainDone
    /\ cli.file
    /\ ~cli.interactive
    /\ ~cli.python_traceback
    /\ cli.outcome = "Signal"
    /\ cli_result = [kind |-> "return", value |-> "-1", repl |-> FALSE]

\* ======================================================================
\* compile_to_inst of Arith and Compare: _compile_arith, _compare
\* (compiler.py)
\* ======================================================================

ArithOps == {"+", "-", "*", "/", "/~"}
CompareOps == {"=", "==", "!=", "<>", "<", ">", "<=", ">="}

\* Local values are rationals <<numerator, denominator>> in lowest terms.
Abs(x) == IF x < 0 THEN 0 - x ELSE x
RECURSIVE gcd(_, _)
gcd(x, y) == IF y = 0 THEN x ELSE gcd(y, x % y)
rat(n, dd) ==
    LET g == gcd(Abs(n), Abs(dd))
        sgn == IF dd < 0 THEN 0 - 1 ELSE 1
    IN <<(sgn * n) \div g, (sgn * dd) \div g>>
rat_lt(x, y) == x[1] * y[2] < y[1] * x[2]

\* An evaluated operand.  type is the type of the number, or "null"; agg says
\* that the operand is an aggregate of that type; local that it is a
\* ValueInstance, with local_value; code is what it contributes to SQL.
Operand(type, agg, local, code, value) ==
    [type |-> type, agg |-> agg, local |-> local, code |-> code,
     local_value |-> value]

LocalValues ==
    [int |-> {<<0, 1>>, <<2, 1>>}, float |-> {<<1, 2>>, <<3, 1>>}]
value_code(v) == ToString(v[1]) \o "/" \o ToString(v[2])

\* The operands in position `name` ("a" on the left, "b" on the right).
NumberOperands(name) ==
    {Operand(t, FALSE, TRUE, value_code(v), v) :
        t \in {"int"}, v \in LocalValues["int"]}
    \cup {Operand(t, FALSE, TRUE, value_code(v), v) :
        t \in {"float"}, v \in LocalValues["float"]}
    \cup {Operand(t, FALSE, FALSE, name, <<>>) : t \in {"int", "float"}}
AggregateOperands(name) ==
    {Operand(t, TRUE, FALSE, name, <<>>) : t \in {"int", "float"}}
null == Operand("null", FALSE, TRUE, "null", <<>>)

is_number(x) == ~x.agg /\ x.type \in {"int", "float"}
is_int(x) == ~x.agg /\ x.type = "int"

\* objects.aggregate(res)
aggregate(res) == [res EXCEPT !.agg = TRUE]
\* a.elem of an aggregate
elem(x) == [x EXCEPT !.agg = FALSE]

ExprResult(kind, type, code, value) ==
    [kind |-> kind, type |-> type, agg |-> FALSE, code |-> code,
     local_value |-> value]
ExprError(t) == ExprResult(t, "", <<>>, <<>>)
\* new_value_instance(value, type)
new_value_instance(value, type) == ExprResult("ValueInstance", type, <<>>, value)
\* sql.arith(res_type, op, [a.code, b.code])
sql_arith(res_type, op, a_code, b_code) == <<"Arith", res_type, op, a_code, b_code>>
\* sql.Compare(op, [a.code, b.code])
sql_Compare(op, a_code, b_code) == <<"Compare", "bool", op, a_code, b_code>>
bool_value(v) == IF v THEN <<1, 1>> ELSE <<0, 1>>

\* if arith.op == '/' or a.type <= T.float or b.type <= T.float: T.float
\* else: T.int
arith_res_type_of_operands(op, a, b) ==
    IF a.type = "float" \/ b.type = "float" THEN "float" ELSE "int"
arith_res_type(op, a, b) ==
    IF op = "/" \/ a.type = "float" \/ b.type = "float" THEN "float"
    ELSE "int"

\* operator.add, sub, mul, truediv, floordiv on the local values
arith_fold(op, x, y) ==
    CASE op = "+" -> rat(x[1] * y[2] + y[1] * x[2], x[2] * y[2])
      [] op = "-" -> rat(x[1] * y[2] - y[1] * x[2], x[2] * y[2])
      [] op = "*" -> rat(x[1] * y[1], x[2] * y[2])
      [] op = "/" -> rat(x[1] * y[2], x[2] * y[1])
      [] op = "/~" -> <<(x[1] * y[2]) \div (x[2] * y[1]), 1>>

\* _compile_arith(state, arith, a: T.number, b: T.number)
compile_arith_number(optimize, op, a, b) ==
    LET res_type == arith_res_type(op, a, b)
    IN IF optimize /\ a.local /\ b.local
       THEN IF op \in {"/", "/~"} /\ b.local_value[1] = 0
            THEN ExprError("ZeroDivisionError")
            ELSE new_value_instance(arith_fold(op, a.local_value, b.local_value),
                                    res_type)
       ELSE ExprResult("Instance", res_type,
                       sql_arith(res_type, op, a.code, b.code), <<>>)

\* _compile_arith, dispatched on the types of the two operands:
\* (aggregate, aggregate), (aggregate, primitive), (primitive, aggregate),
\* (number, number)
compile_arith(optimize, op, a, b) ==
    IF a.agg /\ b.agg
    THEN aggregate(compile_arith_number(optimize, op, elem(a), elem(b)))
    ELSE IF a.agg
    THEN aggregate(compile_arith_number(optimize, op, elem(a), b))
    ELSE IF b.agg
    THEN aggregate(compile_arith_number(optimize, op, elem(b), a))
    ELSE compile_arith_number(optimize, op, a, b)

\* operator.eq, ne, gt, lt, ge, le on the local values
compare_fold(op, x, y) ==
    CASE op = "=" -> x = y
      [] op \in {"!=", "<>"} -> x # y
      [] op = ">" -> rat_lt(y, x)
      [] op = "<" -> rat_lt(x, y)
      [] op = ">=" -> ~rat_lt(x, y)
      [] op = "<=" -> ~rat_lt(y, x)

\* _compare(state, op, a: T.primitive, b: T.primitive)
compare_primitive(optimize, op, a, b) ==
    IF optimize /\ a.local /\ b.local
    THEN new_value_instance(
             bool_value(compare_fold(op, a.local_value, b.local_value)), "bool")
    ELSE ExprResult("Instance", "bool", sql_Compare(op, a.code, b.code), <<>>)

\* _compare(state, op, a: T.null, b: T.null)
compare_null_null(op) == new_value_instance(bool_value(TRUE), "bool")

\* _compare(state, op, a: T.null, b: T.object): always a comparison in SQL,
\* null on the left
compare_null_object(op, a, b) ==
    ExprResult("Instance", "bool", sql_Compare(op, a.code, b.code), <<>>)

\* _compare, dispatched on the types of the two operands: (null, null),
\* (null, object), (object, null), which calls (null, object) with the
\* operands exchanged, (primitive, primitive), (aggregate, aggregate),
\* (aggregate, int), (int, aggregate); any other pair is not implemented.
compare(optimize, op, a, b) ==
    IF a.type = "null" /\ b.type = "null" THEN compare_null_null(op)
    ELSE IF a.type = "null" THEN compare_null_object(op, a, b)
    ELSE IF b.type = "null" THEN compare_null_object(op, b, a)
    ELSE IF a.agg /\ b.agg
    THEN aggregate(compare_primitive(optimize, op, elem(a), elem(b)))
    ELSE IF a.agg /\ is_int(b)
    THEN aggregate(compare_primitive(optimize, op, elem(a), b))
    ELSE IF is_int(a) /\ b.agg
    THEN aggregate(compare_primitive(optimize, op, elem(b), a))
    ELSE IF is_number(a) /\ is_number(b)
    THEN compare_primitive(optimize, op, a, b)
    ELSE ExprError("pql_TypeError")

\* compile_to_inst(Compare): '==' is '=', '<>' is '!='
compare_op(op) ==
    CASE op = "==" -> "=" [] op = "<>" -> "!=" [] OTHER -> op

\* compile_to_inst(state, arith: ast.Arith) and (state, cmp: ast.Compare)
compile_to_inst_Expr(e) ==
    IF e.node = "Arith" THEN compile_arith(e.optimize, e.op, e.a, e.b)
    ELSE compare(e.optimize, compare_op(e.op), e.a, e.b)

Exprs ==
    [kind : {"expr"}, node : {"Arith"}, op : ArithOps, optimize : BOOLEAN,
     a : NumberOperands("a") \cup AggregateOperands("a"),
     b : NumberOperands("b") \cup AggregateOperands("b")]
    \cup
    [kind : {"expr"}, node : {"Compare"}, op : CompareOps, optimize : BOOLEAN,
     a : NumberOperands("a") \cup AggregateOperands("a"),
     b : NumberOperands("b") \cup AggregateOperands("b")]
    \cup
    [kind : {"expr"}, node : {"Compare"}, op : CompareOps, optimize : BOOLEAN,
     a : {null}, b : {null} \cup NumberOperands("b") \cup AggregateOperands("b")]
    \cup
    [kind : {"expr"}, node : {"Compare"}, op : CompareOps, optimize : BOOLEAN,
     a : NumberOperands("a") \cup AggregateOperands("a"), b : {null}]

InitExpr ==
    /\ IdleMatch
    /\ IdleAccess
    /\ IdleExec
    /\ IdleScript
    /\ IdleProj
    /\ IdleOr
    /\ IdleThread
    /\ IdleTick
    /\ IdleUpdate
    /\ IdleCli
    /\ expr \in Exprs
    /\ expr_result = NoExpr

\* evaluate(state, node) of an Arith or Compare node
CompileExpr ==
    /\ expr_result = NoExpr
    /\ expr_result' = compile_to_inst_Expr(expr)
    /\ UNCHANGED expr
    /\ UNCHANGED <<vars_match, vars_access, vars_exec, vars_script, vars_proj,
                   vars_or, vars_thread, vars_tick, vars_upd, vars_cli>>

NextExpr == CompileExpr

SpecExpr == InitExpr /\ [][NextExpr]_vars

ExprDone == expr_result # NoExpr
Produced == expr_result.kind \in {"ValueInstance", "Instance"}

\* C25: arithmetic on two number operands gives a result of type float when
\* either operand is a float or the operator is /, and of type int otherwise,
\* as the type of the folded value and as the type of the SQL Arith.
C25_ArithType ==
    (ExprDone /\ expr.node = "Arith" /\ is_number(expr.a) /\ is_number(expr.b)
        /\ Produced) =>
        LET t == IF expr.op = "/" \/ "float" \in {expr.a.type, expr.b.type}
                 THEN "float" ELSE "int"
        IN /\ expr_result.type = t
           /\ expr_result.kind = "Instance" => expr_result.code[2] = t
           /\ expr_result.kind = "ValueInstance" <=>
                  (expr.optimize /\ expr.a.local /\ expr.b.local)
\* Two local ints divided with / fold to a float.
C25_Witness ==
    /\ ExprDone
    /\ expr.node = "Arith"
    /\ expr.op = "/"
    /\ expr.a.type = "int" /\ expr.b.type = "int"
    /\ expr.a.local /\ expr.b.local /\ ~expr.a.agg /\ ~expr.b.agg
    /\ expr_result.kind = "ValueInstance"
    /\ expr_result.type = "float"

\* C27: for a non-commutative arithmetic operator (-, /, /~), or an ordering
\* comparison (<, <=, >, >=), applied to a primitive left operand a and an
\* aggregate right operand b, the generated operation is a op elem(b), with a
\* on the left, wrapped in an aggregate.
C27_OperandOrder ==
    (/\ ExprDone
     /\ ~expr.a.agg
     /\ expr.b.agg
     /\ \/ expr.node = "Arith" /\ expr.op \in {"-", "/", "/~"}
        \/ /\ expr.node = "Compare"
           /\ expr.op \in {"<", "<=", ">", ">="}
           /\ is_int(expr.a)) =>
        /\ expr_result.kind = "Instance"
        /\ expr_result.agg
        /\ expr_result.code[3] = expr.op
        /\ expr_result.code[4] = expr.a.code
        /\ expr_result.code[5] = expr.b.code

\* C28: null = null evaluates to true and null != null evaluates to false.
C28_NullCompare ==
    (ExprDone /\ expr.node = "Compare" /\ expr.a = null /\ expr.b = null) =>
        /\ expr.op \in {"=", "=="} => expr_result.local_value = bool_value(TRUE)
        /\ expr.op \in {"!=", "<>"} => expr_result.local_value = bool_value(FALSE)

\* ======================================================================
\* State.unique_name called by threads on their copies of the state
\* (interp_common.py, core/interpreter.py)
\* ======================================================================

\* self.tick[0] += 1 reads tick[0], adds one and writes the sum back;
\* str(self.tick[0]) reads it again.  Another thread can run between any two
\* of the three.
tick_read(tk, self) == tk[self.tick]
tick_write(tk, self, v) == [tk EXCEPT ![self.tick] = v]
NotCalling == [pc |-> "idle", state |-> 0, prefix |-> ""]

\* Interpreter.__init__: one state, no thread has a copy.
InitRace ==
    /\ IdleMatch
    /\ IdleAccess
    /\ IdleExec
    /\ IdleScript
    /\ IdleProj
    /\ IdleOr
    /\ IdleThread
    /\ IdleUpdate
    /\ IdleCli
    /\ IdleExpr
    /\ ticks = State_init(<<>>).ticks
    /\ tick_states = <<State_init(<<>>).state>>
    /\ minted = <<>>
    /\ upc = [t \in Threads |-> NotCalling]
    /\ ureg = [t \in Threads |-> 0]

RaceOthersIdle ==
    UNCHANGED <<vars_match, vars_access, vars_exec, vars_script, vars_proj,
                vars_or, vars_thread, vars_upd, vars_cli, vars_expr>>

InFlight == Cardinality({t \in Threads : upc[t].pc # "idle"})

\* Thread t enters an entry point: it takes its copy of the state, cloning
\* the interpreter's state at its first access, and the code it runs calls
\* unique_name(obj).
RaceCall(t, obj) ==
    /\ upc[t].pc = "idle"
    /\ Len(minted) + InFlight < MaxCalls
    /\ IF upc[t].state = 0
       THEN LET c == clone_State(ticks, tick_states[1])
            IN /\ ticks' = c.ticks
               /\ tick_states' = Append(tick_states, c.state)
               /\ upc' = [upc EXCEPT ![t] = [pc |-> "load",
                                             state |-> Len(tick_states) + 1,
                                             prefix |-> obj]]
       ELSE /\ UNCHANGED <<ticks, tick_states>>
            /\ upc' = [upc EXCEPT ![t].pc = "load", ![t].prefix = obj]
    /\ UNCHANGED <<minted, ureg>>
    /\ RaceOthersIdle

\* the read of self.tick[0] += 1
RaceLoad(t) ==
    /\ upc[t].pc = "load"
    /\ ureg' = [ureg EXCEPT ![t] = tick_read(ticks, tick_states[upc[t].state])]
    /\ upc' = [upc EXCEPT ![t].pc = "store"]
    /\ UNCHANGED <<ticks, tick_states, minted>>
    /\ RaceOthersIdle

\* the write of self.tick[0] += 1
RaceStore(t) ==
    /\ upc[t].pc = "store"
    /\ ticks' = tick_write(ticks, tick_states[upc[t].state], ureg[t] + 1)
    /\ upc' = [upc EXCEPT ![t].pc = "read"]
    /\ UNCHANGED <<tick_states, minted, ureg>>
    /\ RaceOthersIdle

\* return obj + str(self.tick[0])
RaceReturn(t) ==
    /\ upc[t].pc = "read"
    /\ LET v == tick_read(ticks, tick_states[upc[t].state])
       IN minted' = Append(minted,
                           [state |-> upc[t].state, prefix |-> upc[t].prefix,
                            name |-> upc[t].prefix \o ToString(v), tick |-> v])
    /\ upc' = [upc EXCEPT ![t].pc = "idle", ![t].prefix = ""]
    /\ UNCHANGED <<ticks, tick_states, ureg>>
    /\ RaceOthersIdle

NextRace ==
    \/ \E t \in Threads, p \in Prefixes : RaceCall(t, p)
    \/ \E t \in Threads : RaceLoad(t)
    \/ \E t \in Threads : RaceStore(t)
    \/ \E t \in Threads : RaceReturn(t)

SpecRace == InitRace /\ [][NextRace]_vars

\* C26: two threads that hold cloned states and call unique_name with the
\* same prefix get distinct names, however the reads and writes of the
\* counter interleave.
C26_DistinctUnderRace ==
    \A i, j \in 1..Len(minted) :
        (i < j /\ minted[i].state # minted[j].state
               /\ minted[i].prefix = minted[j].prefix) =>
            minted[i].name # minted[j].name

\* C29: an Update that raises "Table does not contain id" or "Not all keys
\* exist in table" has submitted no Update query for any row.
C29_AllOrNothing ==
    (UpdateDone /\ upd_result.error \in {UpdateIdError, UpdateKeysError}) =>
        UpdateQueries(upd_result.queries) = <<>>
\* An Update of two rows that assigns a field the rows do not have: the
\* error is raised and the only query submitted is the one that read the rows.
C29_Witness ==
    /\ UpdateDone
    /\ upd.nrows = 2
    /\ "id" \in upd.columns
    /\ "zip" \in upd.fields
    /\ upd_result.error = UpdateKeysError
    /\ upd_result.queries = <<sql_Select>>

\* C30: a variable bound through Interpreter.set_var is what code run
\* afterwards by execute_code on the same thread reads under that name,
\* whether or not the thread had entered an entry point before the set_var.
C30_SetVarVisible ==
    (seen.kind # "none" /\ last_set.thread = seen.thread
                        /\ last_set.name = seen.name) =>
        (seen.kind = "value" /\ seen.value = last_set.value)
====
